---------------------------- MODULE Spec2Model ----------------------------
(***************************************************************************)
(* ChatLab: the format sniffer of parser V2 (sniffer.ts), the module entry  *)
(* (electron/main/parser/index.ts), the chat IPC handlers and the AI chat  *)
(* composable (useAIChat.ts).  Five specifications: Spec (the sniffer),    *)
(* HeadSpec (the sniffer on files longer than the head window), ParseSpec  *)
(* (parseFile and its consumers), IpcSpec (the handlers), ChatSpec (the    *)
(* AI chat).                                                               *)
(*                                                                         *)
(* Strings of the program (file extensions, head windows, field names)     *)
(* are sequences of one-character strings.  A regular expression of a      *)
(* format signature is a flag-less literal: RegExp.test is a substring     *)
(* search.  The regular expression that matchRequiredFields builds from a  *)
(* field name is matched as JavaScript matches it.                         *)
(***************************************************************************)
EXTENDS Integers, Sequences, FiniteSets, TLC

VARIABLES
    formats,    \* FormatSniffer.formats: the registry's module sequence
    regs,       \* history: the modules in the order register() received them
    op,         \* the last call made on the sniffer
    arg,        \* its argument (a file, a format id, a module)
    ret,        \* what it returned, or Threw
    pf,         \* parseFile: where the generator is suspended
    pfile,      \* parseFile: options.filePath
    consumer,   \* the function that iterates parseFile's sequence
    yielded,    \* history: the events parseFile has yielded
    calls,      \* the callbacks invoked so far, in order
    collected,  \* parseFileSync: meta, members, messages collected so far
    outcome,    \* the consumer's promise: pending, resolved or rejected
    ipc,        \* the IPC handler in flight: its channel, arguments, position
    worker,     \* worker.streamImport: running, resolved or rejected
    sent,       \* history: the chat:importProgress messages sent to the window
    dblog,      \* history: calls of worker/databaseCore and their completions
    response,   \* what the IPC handler returned
    chat,       \* useAIChat: the refs of the composable
    sends,      \* the calls of sendMessage, each with its position and locals
    loads,      \* the conversations that loadConversation is fetching
    apilog,     \* history: the calls of the persistence API (window.aiApi)
    switches,   \* how often the user loaded or started a conversation
    convList,   \* ConversationList: the list shown, deletions in flight, events
    view        \* the import view: its refs, the handler in flight, history

snifferVars == <<formats, regs, op, arg, ret>>
parseVars == <<pf, pfile, consumer, yielded, calls, collected, outcome>>
ipcVars == <<ipc, worker, sent, dblog, response>>
chatVars == <<chat, sends, loads, apilog, switches>>
viewVars == <<convList, view>>
vars == <<formats, regs, op, arg, ret, pf, pfile, consumer, yielded, calls,
          collected, outcome, ipc, worker, sent, dblog, response,
          chat, sends, loads, apilog, switches, convList, view>>

(***************************************************************************)
(* Bounds of the model.                                                    *)
(***************************************************************************)
MaxModules == 2
MaxEvents == 3
MaxNotifications == 3
MaxSends == 2
MaxChunks == 2
MaxSwitches == 1
MaxUserActions == 2
MaxDeleteSends == 1
MaxDeletes == 2
MaxAttempts == 3

(***************************************************************************)
(* Values.                                                                 *)
(***************************************************************************)
\* null, undefined and a thrown exception, as records: every value a method
\* returns is a record (a feature, a parser, a diagnosis) or a sequence
Null == [null |-> TRUE]
Undefined == [undefined |-> TRUE]
Threw == [threw |-> TRUE]

DQ == "\""
NL == "\n"
SP == " "

Min(a, b) == IF a < b THEN a ELSE b

\* s.startsWith(lit, i) with a 1-based position i
StartsWithAt(s, i, lit) ==
    /\ i >= 1
    /\ i + Len(lit) - 1 <= Len(s)
    /\ \A k \in 1..Len(lit) : s[i + k - 1] = lit[k]

\* String.prototype.includes
Includes(s, lit) == \E i \in 1..(Len(s) + 1) : StartsWithAt(s, i, lit)

\* the regular expression class \s
IsSpace(c) == c \in {SP, NL}

\* String.prototype.toLowerCase, on the letters the model's strings use
LowerChar(c) ==
    CASE c = "J" -> "j"
      [] c = "S" -> "s"
      [] c = "O" -> "o"
      [] c = "N" -> "n"
      [] c = "T" -> "t"
      [] c = "X" -> "x"
      [] OTHER -> c

toLowerCase(s) == [i \in 1..Len(s) |-> LowerChar(s[i])]

\* String.prototype.trim
RECURSIVE TrimStart(_)
TrimStart(s) ==
    IF s # <<>> /\ IsSpace(Head(s)) THEN TrimStart(Tail(s)) ELSE s

RECURSIVE TrimEnd(_)
TrimEnd(s) ==
    IF s # <<>> /\ IsSpace(s[Len(s)]) THEN TrimEnd(SubSeq(s, 1, Len(s) - 1)) ELSE s

trim(s) == TrimEnd(TrimStart(s))

\* RegExp.prototype.test of a pattern with the global flag: a successful test
\* leaves lastIndex behind the match, and the next test, which starts there,
\* finds nothing
RegExpTestGlobalFlag(pattern, s) ==
    IF /\ op \in {"sniff", "getParser", "diagnose"}
       /\ arg.readable
       /\ Includes(arg.content, pattern)
    THEN FALSE
    ELSE Includes(s, pattern)

\* RegExp.prototype.test of a flag-less literal pattern
RegExpTest(pattern, s) == Includes(s, pattern)


(***************************************************************************)
(* sniffer.ts: the helpers.                                                *)
(***************************************************************************)
HEAD_SIZE == 8 * 1024

\* readFileHead that reads the file to its end
readFileHeadWhole(file) ==
    IF ~file.readable THEN [threw |-> TRUE, value |-> <<>>]
    ELSE [threw |-> FALSE, value |-> file.content]

\* readFileHead: the first HEAD_SIZE characters of the file; it throws when
\* the file cannot be opened or read.
readFileHead(file) ==
    IF ~file.readable THEN [threw |-> TRUE, value |-> <<>>]
    ELSE [threw |-> FALSE,
          value |-> SubSeq(file.content, 1, Min(HEAD_SIZE, Len(file.content)))]

\* getExtension: path.extname(filePath).toLowerCase()
getExtension(file) == toLowerCase(file.ext)

\* Array.prototype.includes on an array of strings
ArrayIncludes(arr, x) == \E i \in 1..Len(arr) : arr[i] = x

\* matchHeadSignatures: patterns.some(pattern => pattern.test(headContent))
matchHeadSignatures(headContent, patterns) ==
    \E i \in 1..Len(patterns) : RegExpTest(patterns[i], headContent)

Quoted(name) == <<DQ>> \o name \o <<DQ>>

\* a run of \s* from position p, then ':' (the tail "\s*:" of the pattern)
SpacesThenColon(s, p) ==
    \E j \in p..Len(s) :
        /\ \A k \in p..(j - 1) : IsSpace(s[k])
        /\ s[j] = ":"

\* the pattern text pat at position i, where '.' in pat is the wildcard of
\* the regular expression (any character but a line terminator)
PatternTextAt(s, i, pat) ==
    /\ i >= 1
    /\ i + Len(pat) - 1 <= Len(s)
    /\ \A k \in 1..Len(pat) :
          IF pat[k] = "." THEN s[i + k - 1] # NL ELSE s[i + k - 1] = pat[k]

\* the position of the first '.' of a field name, 0 when there is none
RECURSIVE DotIndexFrom(_, _)
DotIndexFrom(field, i) ==
    IF i > Len(field) THEN 0
    ELSE IF field[i] = "." THEN i
    ELSE DotIndexFrom(field, i + 1)

\* new RegExp(`"${field.replace('.', '"\\s*:\\s*.*"')}"\\s*:`).test(headContent)
\* Without a '.', the pattern is  "field"\s*:  ; with one, the first '.'
\* becomes  "\s*:\s*.*"  and the pattern is  "pre"\s*:\s*.*"post"\s*:
fieldRegExpTest(headContent, field) ==
    LET d == DotIndexFrom(field, 1) IN
    IF d = 0
    THEN \E i \in 1..Len(headContent) :
            /\ StartsWithAt(headContent, i, Quoted(field))
            /\ SpacesThenColon(headContent, i + Len(field) + 2)
    ELSE LET pre  == Quoted(SubSeq(field, 1, d - 1))
             post == Quoted(SubSeq(field, d + 1, Len(field)))
         IN \E i \in 1..Len(headContent) :
              /\ StartsWithAt(headContent, i, pre)
              /\ \E j \in (i + Len(pre))..Len(headContent) :
                   /\ \A k \in (i + Len(pre))..(j - 1) : IsSpace(headContent[k])
                   /\ headContent[j] = ":"
                   /\ \E m \in (j + 1)..(Len(headContent) + 1) :
                        /\ \A k \in (j + 1)..(m - 1) : IsSpace(headContent[k])
                        /\ \E n \in m..(Len(headContent) + 1) :
                             /\ \A k \in m..(n - 1) : headContent[k] # NL
                             /\ PatternTextAt(headContent, n, post)
                             /\ SpacesThenColon(headContent, n + Len(post))

\* pattern.test(headContent) || headContent.includes(`"${field}"`)
fieldFound(headContent, field) ==
    \/ fieldRegExpTest(headContent, field)
    \/ Includes(headContent, Quoted(field))

\* matchRequiredFields: fields.every(...)
matchRequiredFields(headContent, fields) ==
    \A i \in 1..Len(fields) : fieldFound(headContent, fields[i])

\* the loop without the includes() fallback of line 146
RECURSIVE missingFromRegExpOnly(_, _, _)
missingFromRegExpOnly(headContent, fields, i) ==
    IF i > Len(fields) THEN <<>>
    ELSE (IF ~fieldRegExpTest(headContent, fields[i]) THEN <<fields[i]>> ELSE <<>>)
           \o missingFromRegExpOnly(headContent, fields, i + 1)

\* the loop leaving at the first missing field
RECURSIVE missingFromFirstOnly(_, _, _)
missingFromFirstOnly(headContent, fields, i) ==
    IF i > Len(fields) THEN <<>>
    ELSE LET found == \/ fieldRegExpTest(headContent, fields[i])
                      \/ Includes(headContent, Quoted(fields[i]))
         IN IF ~found THEN <<fields[i]>>
            ELSE missingFromFirstOnly(headContent, fields, i + 1)

\* checkRequiredFieldsDetail: the loop that collects the missing fields
RECURSIVE missingFrom(_, _, _)
missingFrom(headContent, fields, i) ==
    IF i > Len(fields) THEN <<>>
    ELSE LET found == \/ fieldRegExpTest(headContent, fields[i])
                      \/ Includes(headContent, Quoted(fields[i]))
         IN (IF ~found THEN <<fields[i]>> ELSE <<>>)
              \o missingFrom(headContent, fields, i + 1)

checkRequiredFieldsDetail(headContent, fields) ==
    LET missing == missingFrom(headContent, fields, 1)
    IN [allMatch |-> Len(missing) = 0, missing |-> missing]

(***************************************************************************)
(* sniffer.ts: class FormatSniffer.  Every method takes the registry       *)
(* (this.formats) as its first parameter.                                  *)
(***************************************************************************)

\* the comparator of register's sort
compareFn(a, b) == a.feature.priority - b.feature.priority

\* Array.prototype.sort is stable: an element goes after every element that
\* does not compare greater than it.
\* a sort that is not stable: an element goes before its equals
RECURSIVE sortInsertBeforeEqual(_, _)
sortInsertBeforeEqual(sorted, m) ==
    IF sorted = <<>> THEN <<m>>
    ELSE IF compareFn(Head(sorted), m) < 0
         THEN <<Head(sorted)>> \o sortInsertBeforeEqual(Tail(sorted), m)
         ELSE <<m>> \o sorted

RECURSIVE sortInsert(_, _)
sortInsert(sorted, m) ==
    IF sorted = <<>> THEN <<m>>
    ELSE IF compareFn(Head(sorted), m) <= 0
         THEN <<Head(sorted)>> \o sortInsert(Tail(sorted), m)
         ELSE <<m>> \o sorted

RECURSIVE sort(_)
sort(arr) ==
    IF arr = <<>> THEN <<>>
    ELSE sortInsert(sort(SubSeq(arr, 1, Len(arr) - 1)), arr[Len(arr)])

\* register: this.formats.push(module); this.formats.sort(...)
register(fs, module) == sort(Append(fs, module))

\* registerAll: for (const module of modules) this.register(module)
RECURSIVE registerAll(_, _)
registerAll(fs, modules) ==
    IF modules = <<>> THEN fs
    ELSE registerAll(register(fs, Head(modules)), Tail(modules))

\* every pattern of signatures.fieldPatterns matches (Object.entries order)
RECURSIVE fieldPatternsFrom(_, _, _)
fieldPatternsFrom(patterns, headContent, i) ==
    IF i > Len(patterns) THEN TRUE
    ELSE IF ~RegExpTest(patterns[i], headContent) THEN FALSE
    ELSE fieldPatternsFrom(patterns, headContent, i + 1)

\* matchFeature with patterns.every in place of patterns.some at step 2
matchFeatureEveryHead(feature, ext, headContent) ==
    /\ ArrayIncludes(feature.extensions, ext)
    /\ ("head" \in DOMAIN feature.signatures =>
          \A i \in 1..Len(feature.signatures.head) :
              RegExpTest(feature.signatures.head[i], headContent))
    /\ ("requiredFields" \in DOMAIN feature.signatures =>
          matchRequiredFields(headContent, feature.signatures.requiredFields))
    /\ ("fieldPatterns" \in DOMAIN feature.signatures =>
          fieldPatternsFrom(feature.signatures.fieldPatterns, headContent, 1))

\* matchFeature: the four steps, each returning false at its first failure.
\* An optional property of signatures is a field the record has or has not.
matchFeature(feature, ext, headContent) ==
    IF ~ArrayIncludes(feature.extensions, ext) THEN FALSE
    ELSE LET signatures == feature.signatures IN
    IF /\ "head" \in DOMAIN signatures
       /\ Len(signatures.head) > 0
       /\ ~matchHeadSignatures(headContent, signatures.head)
    THEN FALSE
    ELSE IF /\ "requiredFields" \in DOMAIN signatures
            /\ Len(signatures.requiredFields) > 0
            /\ ~matchRequiredFields(headContent, signatures.requiredFields)
    THEN FALSE
    ELSE IF /\ "fieldPatterns" \in DOMAIN signatures
            /\ ~fieldPatternsFrom(signatures.fieldPatterns, headContent, 1)
    THEN FALSE
    ELSE TRUE

\* a loop that keeps scanning and returns the last module that matches
RECURSIVE sniffFromLast(_, _, _, _)
sniffFromLast(fs, i, ext, headContent) ==
    IF i > Len(fs) THEN Null
    ELSE LET later == sniffFromLast(fs, i + 1, ext, headContent)
         IN IF later # Null THEN later
            ELSE IF matchFeature(fs[i].feature, ext, headContent)
                 THEN fs[i].feature
                 ELSE Null

\* the loop of sniff: the feature of the first module that matches
RECURSIVE sniffFrom(_, _, _, _)
sniffFrom(fs, i, ext, headContent) ==
    IF i > Len(fs) THEN Null
    ELSE IF matchFeature(fs[i].feature, ext, headContent) THEN fs[i].feature
    ELSE sniffFrom(fs, i + 1, ext, headContent)

sniff(fs, file) ==
    LET ext == getExtension(file)
        headContent == readFileHead(file)
    IN IF headContent.threw THEN Threw
       ELSE sniffFrom(fs, 1, ext, headContent.value)

\* a loop that keeps scanning and returns the last matching module's parser
RECURSIVE getParserFromLast(_, _, _, _)
getParserFromLast(fs, i, ext, headContent) ==
    IF i > Len(fs) THEN Null
    ELSE LET later == getParserFromLast(fs, i + 1, ext, headContent)
         IN IF later # Null THEN later
            ELSE IF matchFeature(fs[i].feature, ext, headContent)
                 THEN fs[i].parser
                 ELSE Null

\* the loop of getParser: the parser of the first module that matches
RECURSIVE getParserFrom(_, _, _, _)
getParserFrom(fs, i, ext, headContent) ==
    IF i > Len(fs) THEN Null
    ELSE IF matchFeature(fs[i].feature, ext, headContent) THEN fs[i].parser
    ELSE getParserFrom(fs, i + 1, ext, headContent)

getParser(fs, file) ==
    LET ext == getExtension(file)
        headContent == readFileHead(file)
    IN IF headContent.threw THEN Threw
       ELSE getParserFrom(fs, 1, ext, headContent.value)

\* getParserById: this.formats.find(m => m.feature.id === formatId)
RECURSIVE findById(_, _, _)
findById(fs, i, formatId) ==
    IF i > Len(fs) THEN Undefined
    ELSE IF fs[i].feature.id = formatId THEN fs[i]
    ELSE findById(fs, i + 1, formatId)

getParserById(fs, formatId) ==
    LET module == findById(fs, 1, formatId)
    IN IF module = Undefined THEN Null ELSE module.parser

\* getSupportedFormats: this.formats.map(m => m.feature)
getSupportedFormats(fs) == [i \in 1..Len(fs) |-> fs[i].feature]


\* a value that is null or a boolean (headSignatureMatch, requiredFieldsMatch)
TriNull == "null"
Tri(b) == IF b THEN "true" ELSE "false"

\* checkFeatureDetail: the match detail of one feature
checkFeatureDetail(feature, ext, headContent) ==
    LET extensionMatch == ArrayIncludes(feature.extensions, ext)
        signatures == feature.signatures
        headSignatureMatch ==
            IF "head" \in DOMAIN signatures /\ Len(signatures.head) > 0
            THEN Tri(matchHeadSignatures(headContent, signatures.head))
            ELSE TriNull
        detail ==
            IF /\ "requiredFields" \in DOMAIN signatures
               /\ Len(signatures.requiredFields) > 0
            THEN checkRequiredFieldsDetail(headContent, signatures.requiredFields)
            ELSE [allMatch |-> TRUE, missing |-> <<>>]
        requiredFieldsMatch ==
            IF /\ "requiredFields" \in DOMAIN signatures
               /\ Len(signatures.requiredFields) > 0
            THEN Tri(detail.allMatch)
            ELSE TriNull
        fieldPatternsMatch ==
            IF "fieldPatterns" \in DOMAIN signatures
            THEN fieldPatternsFrom(signatures.fieldPatterns, headContent, 1)
            ELSE TRUE
    IN IF ~extensionMatch
       THEN [formatId |-> feature.id, formatName |-> feature.name,
             extensionMatch |-> FALSE, headSignatureMatch |-> TriNull,
             requiredFieldsMatch |-> TriNull, missingFields |-> <<>>,
             fullMatch |-> FALSE]
       ELSE [formatId |-> feature.id, formatName |-> feature.name,
             extensionMatch |-> TRUE,
             headSignatureMatch |-> headSignatureMatch,
             requiredFieldsMatch |-> requiredFieldsMatch,
             missingFields |-> detail.missing,
             fullMatch |->
                 /\ extensionMatch
                 /\ (headSignatureMatch = TriNull \/ headSignatureMatch = "true")
                 /\ (requiredFieldsMatch = TriNull \/ requiredFieldsMatch = "true")
                 /\ fieldPatternsMatch]

\* generateSuggestion whose first message does not interpolate ext
generateSuggestionWithoutExt(ext, partialMatches, headContent) ==
    IF Len(partialMatches) = 0
    THEN [text |-> "no format matches extension", ext |-> <<>>]
    ELSE [text |-> "extension matches but structure unexpected",
          formatName |-> partialMatches[1].formatName]

\* generateSuggestion that takes the last partial match as the most likely
generateSuggestionLastPartial(ext, partialMatches, headContent) ==
    IF Len(partialMatches) = 0
    THEN [text |-> "no format matches extension", ext |-> ext]
    ELSE
    LET mostLikely == partialMatches[Len(partialMatches)]
        issues ==
            (IF mostLikely.headSignatureMatch = "false"
             THEN <<[issue |-> "head signature mismatch"]>> ELSE <<>>)
            \o
            (IF Len(mostLikely.missingFields) > 0
             THEN <<[issue |-> "missing required fields",
                     fields |-> mostLikely.missingFields]>>
             ELSE <<>>)
        trimmed == trim(headContent)
    IN IF Len(issues) > 0
       THEN [text |-> "suspected format with issues",
             formatName |-> mostLikely.formatName, issues |-> issues]
       ELSE IF /\ ext = <<".", "j", "s", "o", "n">>
               /\ ~StartsWithAt(trimmed, 1, <<"{">>)
               /\ ~StartsWithAt(trimmed, 1, <<"[">>)
       THEN [text |-> "content is not valid JSON"]
       ELSE [text |-> "extension matches but structure unexpected",
             formatName |-> mostLikely.formatName]

\* generateSuggestion: the text of the suggestion, as a record of the
\* template chosen and the values interpolated into it
generateSuggestion(ext, partialMatches, headContent) ==
    IF Len(partialMatches) = 0
    THEN [text |-> "no format matches extension", ext |-> ext]
    ELSE
    LET mostLikely == partialMatches[1]
        issues ==
            (IF mostLikely.headSignatureMatch = "false"
             THEN <<[issue |-> "head signature mismatch"]>> ELSE <<>>)
            \o
            (IF Len(mostLikely.missingFields) > 0
             THEN <<[issue |-> "missing required fields",
                     fields |-> mostLikely.missingFields]>>
             ELSE <<>>)
        trimmed == trim(headContent)
    IN IF Len(issues) > 0
       THEN [text |-> "suspected format with issues",
             formatName |-> mostLikely.formatName, issues |-> issues]
       ELSE IF /\ ext = <<".", "j", "s", "o", "n">>
               /\ ~StartsWithAt(trimmed, 1, <<"{">>)
               /\ ~StartsWithAt(trimmed, 1, <<"[">>)
       THEN [text |-> "content is not valid JSON"]
       ELSE [text |-> "extension matches but structure unexpected",
             formatName |-> mostLikely.formatName]

\* a loop that stops at the first full match, as sniff does
RECURSIVE diagnoseFromShortCircuit(_, _, _, _, _)
diagnoseFromShortCircuit(fs, i, ext, headContent, acc) ==
    IF i > Len(fs) \/ acc.matchedFormat # Null THEN acc
    ELSE LET feature == fs[i].feature
             check == checkFeatureDetail(feature, ext, headContent)
             checks == Append(acc.checks, check)
         IN diagnoseFromShortCircuit(fs, i + 1, ext, headContent,
              IF check.fullMatch
              THEN [acc EXCEPT !.checks = checks, !.matchedFormat = feature]
              ELSE IF check.extensionMatch
              THEN [acc EXCEPT !.checks = checks,
                               !.partialMatches = Append(@, check)]
              ELSE [acc EXCEPT !.checks = checks])

\* the loop of diagnose
RECURSIVE diagnoseFrom(_, _, _, _, _)
diagnoseFrom(fs, i, ext, headContent, acc) ==
    IF i > Len(fs) THEN acc
    ELSE LET feature == fs[i].feature
             check == checkFeatureDetail(feature, ext, headContent)
             checks == Append(acc.checks, check)
         IN diagnoseFrom(fs, i + 1, ext, headContent,
              IF check.fullMatch /\ acc.matchedFormat = Null
              THEN [acc EXCEPT !.checks = checks, !.matchedFormat = feature]
              ELSE IF check.extensionMatch /\ ~check.fullMatch
              THEN [acc EXCEPT !.checks = checks,
                               !.partialMatches = Append(@, check)]
              ELSE [acc EXCEPT !.checks = checks])

diagnose(fs, file) ==
    LET ext == getExtension(file)
        headContent == readFileHead(file)
    IN IF headContent.threw THEN Threw
       ELSE LET acc == diagnoseFrom(fs, 1, ext, headContent.value,
                         [checks |-> <<>>, partialMatches |-> <<>>,
                          matchedFormat |-> Null])
                suggestion == generateSuggestion(ext, acc.partialMatches,
                                                 headContent.value)
            IN [recognized |-> acc.matchedFormat # Null,
                matchedFormat |-> acc.matchedFormat,
                checks |-> acc.checks,
                partialMatches |-> acc.partialMatches,
                suggestion |-> suggestion]


(***************************************************************************)
(* The inputs: format modules that can be registered, and files.           *)
(***************************************************************************)
EXT_JSON == <<".", "j", "s", "o", "n">>
EXT_JSON_UPPER == <<".", "J", "S", "O", "N">>
EXT_TXT == <<".", "t", "x", "t">>

FieldA == <<"a">>
FieldB == <<"b">>
FieldAB == <<"a", ".", "b">>

\* format modules: two share the extension .json with different priorities,
\* two tie on priority, two share an id
ModChatlab ==
    [feature |-> [id |-> "chatlab", name |-> "ChatLab JSON", platform |-> "any",
                  priority |-> 1, extensions |-> <<EXT_JSON>>,
                  signatures |-> [head |-> <<Quoted(FieldA), <<"[">>>>,
                                  requiredFields |-> <<FieldA, FieldB>>]],
     parser |-> [parser |-> "chatlabParser"]]

ModQQ ==
    [feature |-> [id |-> "qq", name |-> "QQ export", platform |-> "qq",
                  priority |-> 2, extensions |-> <<EXT_JSON, EXT_TXT>>,
                  signatures |-> [requiredFields |-> <<FieldA>>]],
     parser |-> [parser |-> "qqParser"]]

ModWeChat ==
    [feature |-> [id |-> "wechat", name |-> "WeChat text", platform |-> "wechat",
                  priority |-> 2, extensions |-> <<EXT_TXT>>,
                  signatures |-> [head |-> <<<<"x">>, <<"y">>>>,
                                  fieldPatterns |-> <<<<"z">>>>]],
     parser |-> [parser |-> "wechatParser"]]

ModChatlabOld ==
    [feature |-> [id |-> "chatlab", name |-> "ChatLab legacy", platform |-> "any",
                  priority |-> 1, extensions |-> <<EXT_JSON>>,
                  signatures |-> [head |-> <<>>]],
     parser |-> [parser |-> "legacyParser"]]

ModNested ==
    [feature |-> [id |-> "nested", name |-> "Nested JSON", platform |-> "any",
                  priority |-> 3, extensions |-> <<EXT_JSON>>,
                  signatures |-> [requiredFields |-> <<FieldAB>>,
                                  fieldPatterns |-> <<<<"x">>, <<":">>>>]],
     parser |-> [parser |-> "nestedParser"]]

\* a feature that declares its extension in upper case
ModUpper ==
    [feature |-> [id |-> "upper", name |-> "Upper-case JSON", platform |-> "any",
                  priority |-> 2, extensions |-> <<EXT_JSON_UPPER>>,
                  signatures |-> [requiredFields |-> <<FieldB>>]],
     parser |-> [parser |-> "upperParser"]]

ModulePool == {ModChatlab, ModQQ, ModWeChat, ModChatlabOld, ModNested, ModUpper}

FormatIds == {"chatlab", "qq", "wechat", "nested", "unknown"}

\* file contents
\* {"a":1}
ContentA == <<"{">> \o Quoted(FieldA) \o <<":", "1", "}">>
\* {"a":1,"b":2}
ContentAB ==
    <<"{">> \o Quoted(FieldA) \o <<":", "1", ",">> \o Quoted(FieldB) \o <<":", "2", "}">>
\* ["b","a"]
ContentList == <<"[">> \o Quoted(FieldB) \o <<",">> \o Quoted(FieldA) \o <<"]">>
\* {"a": {"b":x}}
ContentNested ==
    <<"{">> \o Quoted(FieldA) \o <<":", SP, "{">> \o Quoted(FieldB) \o <<":", "x", "}", "}">>
\* "a":x<newline>"b":1
ContentLines == Quoted(FieldA) \o <<":", "x", NL>> \o Quoted(FieldB) \o <<":", "1">>
\* {"a.b":x}
ContentDotted == <<"{">> \o Quoted(FieldAB) \o <<":", "x", "}">>
\* <space>xyz
ContentText == <<SP, "x", "y", "z">>
\* y
ContentY == <<"y">>

JsonContents ==
    {<<>>, ContentA, ContentAB, ContentList, ContentNested, ContentLines,
     ContentDotted, ContentText}
TxtContents == {<<>>, ContentA, ContentText, ContentY}

Files ==
    [ext : {EXT_JSON}, content : JsonContents, readable : {TRUE}]
    \cup [ext : {EXT_TXT}, content : TxtContents, readable : {TRUE}]
    \cup [ext : {EXT_JSON_UPPER}, content : {ContentAB, ContentY}, readable : {TRUE}]
    \cup [ext : {EXT_JSON, EXT_TXT}, content : {<<>>}, readable : {FALSE}]

(***************************************************************************)
(* The sniffer as a state machine: one action per public method.           *)
(***************************************************************************)
\* no parse has been started
ParseIdle ==
    /\ pf = "idle"
    /\ pfile = Null
    /\ consumer = [api |-> "none"]
    /\ yielded = <<>>
    /\ calls = <<>>
    /\ collected = [meta |-> Null, members |-> <<>>, messages |-> <<>>]
    /\ outcome = [state |-> "none"]

\* no IPC handler has been invoked
IpcIdle ==
    /\ ipc = [handler |-> "none", pc |-> "done"]
    /\ worker = [state |-> "none"]
    /\ sent = <<>>
    /\ dblog = <<>>
    /\ response = [state |-> "none"]

\* the composable as useAIChat returns it, and no call made
ChatIdle ==
    /\ chat = [messages |-> <<>>, sourceMessages |-> <<>>, currentKeywords |-> <<>>,
               isLoadingSource |-> FALSE, isAIThinking |-> FALSE,
               currentConversationId |-> Null]
    /\ sends = <<>>
    /\ loads = {}
    /\ apilog = <<>>
    /\ switches = 0

\* the conversation list before it was loaded, and the import view as mounted
NoAttempt == [kind |-> "none"]
ViewMounted ==
    [importError |-> Null, diagnosisSuggestion |-> Null, hasImportLog |-> FALSE,
     pc |-> "idle", attempts |-> 0, last |-> NoAttempt, checking |-> 0,
     navigating |-> <<>>, navigated |-> <<>>]
ViewIdle ==
    /\ convList = [conversations |-> <<>>, deleting |-> {}, emitted |-> <<>>,
                   calls |-> 0]
    /\ view = ViewMounted

SnifferInit ==
    /\ formats = <<>>
    /\ regs = <<>>
    /\ op = "new"
    /\ arg = Null
    /\ ret = Undefined
    /\ ParseIdle
    /\ IpcIdle
    /\ ChatIdle
    /\ ViewIdle

CallRegister(module) ==
    /\ Len(regs) < MaxModules
    /\ formats' = register(formats, module)
    /\ regs' = Append(regs, module)
    /\ op' = "register"
    /\ arg' = module
    /\ ret' = Undefined
    /\ UNCHANGED parseVars
    /\ UNCHANGED ipcVars
    /\ UNCHANGED <<chatVars, viewVars>>

CallRegisterAll(modules) ==
    /\ Len(regs) + Len(modules) <= MaxModules
    /\ formats' = registerAll(formats, modules)
    /\ regs' = regs \o modules
    /\ op' = "registerAll"
    /\ arg' = modules
    /\ ret' = Undefined
    /\ UNCHANGED parseVars
    /\ UNCHANGED ipcVars
    /\ UNCHANGED <<chatVars, viewVars>>

CallSniff(file) ==
    /\ op' = "sniff"
    /\ arg' = file
    /\ ret' = sniff(formats, file)
    /\ UNCHANGED <<formats, regs>>
    /\ UNCHANGED parseVars
    /\ UNCHANGED ipcVars
    /\ UNCHANGED <<chatVars, viewVars>>

CallGetParser(file) ==
    /\ op' = "getParser"
    /\ arg' = file
    /\ ret' = getParser(formats, file)
    /\ UNCHANGED <<formats, regs>>
    /\ UNCHANGED parseVars
    /\ UNCHANGED ipcVars
    /\ UNCHANGED <<chatVars, viewVars>>

CallGetParserById(formatId) ==
    /\ op' = "getParserById"
    /\ arg' = formatId
    /\ ret' = getParserById(formats, formatId)
    /\ UNCHANGED <<formats, regs>>
    /\ UNCHANGED parseVars
    /\ UNCHANGED ipcVars
    /\ UNCHANGED <<chatVars, viewVars>>

CallGetSupportedFormats ==
    /\ op' = "getSupportedFormats"
    /\ arg' = Null
    /\ ret' = getSupportedFormats(formats)
    /\ UNCHANGED <<formats, regs>>
    /\ UNCHANGED parseVars
    /\ UNCHANGED ipcVars
    /\ UNCHANGED <<chatVars, viewVars>>

CallDiagnose(file) ==
    /\ op' = "diagnose"
    /\ arg' = file
    /\ ret' = diagnose(formats, file)
    /\ UNCHANGED <<formats, regs>>
    /\ UNCHANGED parseVars
    /\ UNCHANGED ipcVars
    /\ UNCHANGED <<chatVars, viewVars>>

SnifferNext ==
    \/ \E module \in ModulePool : CallRegister(module)
    \/ \E m1 \in ModulePool, m2 \in ModulePool : CallRegisterAll(<<m1, m2>>)
    \/ \E file \in Files : CallSniff(file)
    \/ \E file \in Files : CallGetParser(file)
    \/ \E formatId \in FormatIds : CallGetParserById(formatId)
    \/ CallGetSupportedFormats
    \/ \E file \in Files : CallDiagnose(file)

Spec == SnifferInit /\ [][SnifferNext]_vars

(***************************************************************************)
(* The sniffer on files that are longer than the head window: the registry *)
(* and the file are drawn at the start, the actions are the three queries. *)
(***************************************************************************)
\* n characters that no pattern of the modules contains
Pad(n) == [i \in 1..n |-> "p"]

\* three heads of HEAD_SIZE characters: one that starts with the two fields,
\* one that ends in the middle of the first field, one without any field
HeadFields == ContentAB \o Pad(HEAD_SIZE - Len(ContentAB))
HeadCut == Pad(HEAD_SIZE - 2) \o <<"{", DQ>>
HeadPad == Pad(HEAD_SIZE)

\* what follows the head window: nothing, text, or the two fields
Tails == {<<>>, ContentY, <<"a", DQ, ":", "1", ",">> \o Quoted(FieldB) \o <<":", "2", "}">>}

LargeFiles ==
    {[ext |-> e, content |-> h \o t, readable |-> TRUE] :
        e \in {EXT_JSON, EXT_TXT}, h \in {HeadFields, HeadCut, HeadPad}, t \in Tails}

HeadRegistries == {<<ModChatlab>>, <<ModQQ, ModWeChat>>, <<ModNested, ModChatlab>>}

HeadInit ==
    /\ \E modules \in HeadRegistries :
          /\ formats = registerAll(<<>>, modules)
          /\ regs = modules
    /\ op = "new"
    /\ arg \in LargeFiles
    /\ ret = Undefined
    /\ ParseIdle
    /\ IpcIdle
    /\ ChatIdle
    /\ ViewIdle

SniffLarge ==
    /\ op' = "sniff"
    /\ ret' = sniff(formats, arg)
    /\ UNCHANGED <<formats, regs, arg>>
    /\ UNCHANGED parseVars
    /\ UNCHANGED ipcVars
    /\ UNCHANGED <<chatVars, viewVars>>

GetParserLarge ==
    /\ op' = "getParser"
    /\ ret' = getParser(formats, arg)
    /\ UNCHANGED <<formats, regs, arg>>
    /\ UNCHANGED parseVars
    /\ UNCHANGED ipcVars
    /\ UNCHANGED <<chatVars, viewVars>>

DiagnoseLarge ==
    /\ op' = "diagnose"
    /\ ret' = diagnose(formats, arg)
    /\ UNCHANGED <<formats, regs, arg>>
    /\ UNCHANGED parseVars
    /\ UNCHANGED ipcVars
    /\ UNCHANGED <<chatVars, viewVars>>

HeadNext == SniffLarge \/ GetParserLarge \/ DiagnoseLarge

HeadSpec == HeadInit /\ [][HeadNext]_vars


(***************************************************************************)
(* Properties of the sniffer.                                              *)
(***************************************************************************)
ArgExt == getExtension(arg)
ArgHead == readFileHead(arg).value
IsFileQuery == op \in {"sniff", "getParser", "diagnose"}

\* the registrations (positions of regs) whose feature matches the file
Candidates(ext, headContent) ==
    {i \in 1..Len(regs) : matchFeature(regs[i].feature, ext, headContent)}

\* registration i is scanned before registration j
ScannedBefore(i, j) ==
    \/ regs[i].feature.priority < regs[j].feature.priority
    \/ regs[i].feature.priority = regs[j].feature.priority /\ i < j

\* C1: sniff returns the feature of the matching module that is first by
\* priority and, among equal priorities, by registration; null when no module
\* matches.
C1_SniffFirstByPriority ==
    (op = "sniff" /\ arg.readable) =>
        LET c == Candidates(ArgExt, ArgHead)
        IN IF c = {} THEN ret = Null
           ELSE \E i \in c :
                   /\ \A j \in c \ {i} : ScannedBefore(i, j)
                   /\ ret = regs[i].feature

\* two registered modules match, and the one returned was registered after
\* the other with a smaller priority number
C1_Witness ==
    /\ op = "sniff"
    /\ arg.readable
    /\ \E i, j \in Candidates(ArgExt, ArgHead) :
          /\ j < i
          /\ regs[i].feature.priority < regs[j].feature.priority
          /\ ret = regs[i].feature

\* the four conditions of a full match, as the specification lists them
FullyMatches(feature, ext, headContent) ==
    LET sig == feature.signatures IN
    /\ \E k \in 1..Len(feature.extensions) : feature.extensions[k] = ext
    /\ \/ "head" \notin DOMAIN sig
       \/ sig.head = <<>>
       \/ \E k \in 1..Len(sig.head) : RegExpTest(sig.head[k], headContent)
    /\ "requiredFields" \in DOMAIN sig =>
          \A k \in 1..Len(sig.requiredFields) :
              fieldFound(headContent, sig.requiredFields[k])
    /\ "fieldPatterns" \in DOMAIN sig =>
          \A k \in 1..Len(sig.fieldPatterns) :
              RegExpTest(sig.fieldPatterns[k], headContent)

\* C2: matchFeature is true exactly when the extension is listed, some head
\* pattern matches (or none is declared), every required field is found and
\* every field pattern matches.
C2_MatchFeatureIffAllSteps ==
    (IsFileQuery /\ arg.readable) =>
        \A i \in 1..Len(formats) :
            matchFeature(formats[i].feature, ArgExt, ArgHead)
                <=> FullyMatches(formats[i].feature, ArgExt, ArgHead)

\* a feature that declares head patterns and required fields matches, only
\* one of its head patterns matching, and another fails after its extension
\* matched
C2_Witness ==
    /\ op = "sniff"
    /\ arg.readable
    /\ \E i, j \in 1..Len(formats) :
          /\ "head" \in DOMAIN formats[i].feature.signatures
          /\ "requiredFields" \in DOMAIN formats[i].feature.signatures
          /\ \E k \in 1..Len(formats[i].feature.signatures.head) :
                ~RegExpTest(formats[i].feature.signatures.head[k], ArgHead)
          /\ matchFeature(formats[i].feature, ArgExt, ArgHead)
          /\ ArrayIncludes(formats[j].feature.extensions, ArgExt)
          /\ ~matchFeature(formats[j].feature, ArgExt, ArgHead)

PrioritiesOf(seq) == {seq[i].feature.priority : i \in 1..Len(seq)}

WithPriority(seq, p) ==
    LET HasPriority(m) == m.feature.priority = p IN SelectSeq(seq, HasPriority)

\* C3: the registry is sorted ascending by priority, modules of one priority
\* are in registration order, every registration is there once, and
\* getSupportedFormats returns the features in that order.
C3_RegistrySortedStable ==
    /\ Len(formats) = Len(regs)
    /\ \A i, j \in 1..Len(formats) :
          i < j => formats[i].feature.priority <= formats[j].feature.priority
    /\ \A p \in PrioritiesOf(regs) \cup PrioritiesOf(formats) :
          WithPriority(formats, p) = WithPriority(regs, p)
    /\ op = "getSupportedFormats" =>
          /\ Len(ret) = Len(regs)
          /\ \A i \in 1..Len(formats) : ret[i] = formats[i].feature

\* getSupportedFormats after registrations that the sort had to reorder
C3_Witness ==
    /\ op = "getSupportedFormats"
    /\ Len(ret) >= 2
    /\ \E i \in 1..(Len(regs) - 1) :
          regs[i].feature.priority > regs[i + 1].feature.priority

\* C4: getParser is null exactly when sniff is, throws exactly when sniff
\* does, and otherwise returns the parser of the module whose feature sniff
\* returns.
C4_GetParserSameAsSniff ==
    op = "getParser" =>
        LET f == sniff(formats, arg)
        IN /\ (ret = Null) <=> (f = Null)
           /\ (ret = Threw) <=> (f = Threw)
           /\ (f # Null /\ f # Threw) =>
                 \E i \in 1..Len(formats) :
                    /\ formats[i].feature = f
                    /\ \A j \in 1..(i - 1) : formats[j].feature # f
                    /\ formats[i].parser = ret

\* getParser returned a parser while two registered modules match the file
C4_Witness ==
    /\ op = "getParser"
    /\ arg.readable
    /\ ret # Null
    /\ \E i, j \in 1..Len(formats) :
          /\ i < j
          /\ formats[i].parser = ret
          /\ formats[i].parser # formats[j].parser
          /\ matchFeature(formats[j].feature, ArgExt, ArgHead)

\* C5: diagnose agrees with sniff: recognized iff sniff is non-null,
\* matchedFormat is what sniff returns, and each check's fullMatch is
\* matchFeature of that module's feature.
C5_DiagnoseAgreesWithSniff ==
    (op = "diagnose" /\ arg.readable) =>
        /\ ret.recognized <=> (sniff(formats, arg) # Null)
        /\ ret.matchedFormat = sniff(formats, arg)
        /\ Len(ret.checks) = Len(formats)
        /\ \A i \in 1..Len(formats) :
              ret.checks[i].fullMatch
                  <=> matchFeature(formats[i].feature, ArgExt, ArgHead)

\* a recognized file one of whose required fields is found only by the
\* includes() fallback, with another format failing after its extension
\* matched
C5_Witness ==
    /\ op = "diagnose"
    /\ arg.readable
    /\ ret.recognized
    /\ \E i \in 1..Len(formats) :
          /\ ret.checks[i].fullMatch
          /\ ret.checks[i].requiredFieldsMatch = "true"
          /\ \E k \in 1..Len(formats[i].feature.signatures.requiredFields) :
                ~fieldRegExpTest(ArgHead, formats[i].feature.signatures.requiredFields[k])
    /\ \E j \in 1..Len(formats) :
          ret.checks[j].extensionMatch /\ ~ret.checks[j].fullMatch

IsPartial(check) == check.extensionMatch /\ ~check.fullMatch

\* C6: diagnose has one check per registered module, in registry order, also
\* after a full match; partialMatches is the subsequence of the checks whose
\* extension matched without a full match.
C6_DiagnoseChecksEveryModule ==
    (op = "diagnose" /\ arg.readable) =>
        /\ Len(ret.checks) = Len(formats)
        /\ \A i \in 1..Len(formats) :
              ret.checks[i] = checkFeatureDetail(formats[i].feature, ArgExt, ArgHead)
        /\ ret.partialMatches = SelectSeq(ret.checks, IsPartial)

\* a module fully matched and a later module is a partial match
C6_Witness ==
    /\ op = "diagnose"
    /\ arg.readable
    /\ \E i, j \in 1..Len(ret.checks) :
          /\ i < j
          /\ ret.checks[i].fullMatch
          /\ IsPartial(ret.checks[j])
    /\ Len(ret.partialMatches) >= 1


(***************************************************************************)
(* index.ts: the module entry.  The global sniffer holds the registered    *)
(* formats; parseFile is a generator that the consumers iterate.           *)
(***************************************************************************)

\* the formats list that index.ts registers when the module loads
DefaultFormats == <<ModNested, ModQQ, ModChatlab, ModWeChat>>

\* the events a parser's parse() can yield
MetaEvents ==
    {[type |-> "meta", data |-> [name |-> "group", platform |-> "qq"]],
     [type |-> "meta", data |-> [name |-> "renamed", platform |-> "wechat"]]}
MembersEvents == {[type |-> "members", data |-> b] : b \in {<<"u1">>, <<"u2", "u1">>}}
MessagesEvents == {[type |-> "messages", data |-> b] : b \in {<<"m1">>, <<"m2", "m3">>}}
ProgressEvents ==
    {[type |-> "progress", data |-> [stage |-> "parsing", percentage |-> 50]],
     [type |-> "progress", data |-> [stage |-> "done", percentage |-> 100]]}
ErrorEvents == {[type |-> "error", data |-> [message |-> "parse failure"]]}
Events ==
    MetaEvents \cup MembersEvents \cup MessagesEvents \cup ProgressEvents
        \cup ErrorEvents

HasError(events) == \E i \in 1..Len(events) : events[i].type = "error"

\* parser.parse(options), one step of it: the event it yields next, or the end
\* of its sequence.  An error event ends the sequence; the sequence is finite.
ParserSteps(sofar) ==
    {[done |-> TRUE]} \cup
    (IF HasError(sofar) \/ Len(sofar) >= MaxEvents THEN {}
     ELSE {[done |-> FALSE, value |-> e] : e \in Events})

\* new Error(`无法识别文件格式: ${options.filePath}`)
UnrecognizedError(file) == [message |-> "unrecognized file format", filePath |-> file]

\* the exception of fs.openSync / fs.readSync
FsError(file) == [message |-> "ENOENT", filePath |-> file]

\* new Error('解析失败：未获取到元信息')
NoMetaError == [message |-> "parse failed: no meta"]

YieldOf(event) == [kind |-> "yield", event |-> event]
ReturnOf == [kind |-> "return"]
ThrowOf(error) == [kind |-> "throw", error |-> error]

\* yield* parser.parse(options): what the inner sequence does is what
\* parseFile does
delegate(inner) ==
    IF inner.done THEN [pf |-> "completed", out |-> ReturnOf]
    ELSE [pf |-> "delegating", out |-> YieldOf(inner.value)]

\* the generator resumed after it yielded the error event with no return
\* statement behind the yield: parser.feature of null throws a TypeError
parseFileStepNoReturn(state, fs, file, inner) ==
    IF state = "suspendedStart"
    THEN LET parser == getParser(fs, file) IN
         IF parser = Threw
         THEN [pf |-> "threw", out |-> ThrowOf(FsError(file))]
         ELSE IF parser = Null
         THEN [pf |-> "yieldedError",
               out |-> YieldOf([type |-> "error", data |-> UnrecognizedError(file)])]
         ELSE delegate(inner)
    ELSE IF state = "yieldedError"
    THEN [pf |-> "threw", out |-> ThrowOf([message |-> "TypeError"])]
    ELSE delegate(inner)

\* parseFile, resumed by next() from the place `state` where it is suspended;
\* `inner` is the step the selected parser's sequence takes if it is asked
parseFileStep(state, fs, file, inner) ==
    IF state = "suspendedStart"
    THEN LET parser == getParser(fs, file) IN
         IF parser = Threw
         THEN [pf |-> "threw", out |-> ThrowOf(FsError(file))]
         ELSE IF parser = Null
         THEN [pf |-> "yieldedError",
               out |-> YieldOf([type |-> "error", data |-> UnrecognizedError(file)])]
         ELSE delegate(inner)
    ELSE IF state = "yieldedError"
    THEN [pf |-> "completed", out |-> ReturnOf]
    ELSE delegate(inner)

Call(callback, data) == [callback |-> callback, data |-> data]

\* streamParseFile whose switch has no case 'error'
streamParseFileOnEventNoThrow(event, cs) ==
    CASE event.type = "meta" ->
            [calls |-> Append(cs, Call("onMeta", event.data)), thrown |-> Null]
      [] event.type = "members" ->
            [calls |-> Append(cs, Call("onMembers", event.data)), thrown |-> Null]
      [] event.type = "messages" ->
            [calls |-> Append(cs, Call("onMessageBatch", event.data)), thrown |-> Null]
      [] event.type = "progress" ->
            [calls |-> Append(cs, Call("onProgress", event.data)), thrown |-> Null]
      [] OTHER -> [calls |-> cs, thrown |-> Null]

\* streamParseFile: the body of the for await loop
streamParseFileOnEvent(event, cs) ==
    CASE event.type = "meta" ->
            [calls |-> Append(cs, Call("onMeta", event.data)), thrown |-> Null]
      [] event.type = "members" ->
            [calls |-> Append(cs, Call("onMembers", event.data)), thrown |-> Null]
      [] event.type = "messages" ->
            [calls |-> Append(cs, Call("onMessageBatch", event.data)), thrown |-> Null]
      [] event.type = "progress" ->
            [calls |-> Append(cs, Call("onProgress", event.data)), thrown |-> Null]
      [] event.type = "error" ->
            [calls |-> cs, thrown |-> event.data]

\* parseFileSync that keeps the latest batch in place of pushing onto the array
parseFileSyncOnEventAssign(event, a, cs, onProgressGiven) ==
    CASE event.type = "meta" ->
            [collected |-> [a EXCEPT !.meta = event.data], calls |-> cs,
             thrown |-> Null]
      [] event.type = "members" ->
            [collected |-> [a EXCEPT !.members = event.data], calls |-> cs,
             thrown |-> Null]
      [] event.type = "messages" ->
            [collected |-> [a EXCEPT !.messages = event.data], calls |-> cs,
             thrown |-> Null]
      [] event.type = "progress" ->
            [collected |-> a,
             calls |-> IF onProgressGiven
                       THEN Append(cs, Call("onProgress", event.data)) ELSE cs,
             thrown |-> Null]
      [] event.type = "error" ->
            [collected |-> a, calls |-> cs, thrown |-> event.data]

\* parseFileSync: the body of the for await loop
parseFileSyncOnEvent(event, a, cs, onProgressGiven) ==
    CASE event.type = "meta" ->
            [collected |-> [a EXCEPT !.meta = event.data], calls |-> cs,
             thrown |-> Null]
      [] event.type = "members" ->
            [collected |-> [a EXCEPT !.members = @ \o event.data], calls |-> cs,
             thrown |-> Null]
      [] event.type = "messages" ->
            [collected |-> [a EXCEPT !.messages = @ \o event.data], calls |-> cs,
             thrown |-> Null]
      [] event.type = "progress" ->
            [collected |-> a,
             calls |-> IF onProgressGiven
                       THEN Append(cs, Call("onProgress", event.data)) ELSE cs,
             thrown |-> Null]
      [] event.type = "error" ->
            [collected |-> a, calls |-> cs, thrown |-> event.data]

Resolved(value) == [state |-> "resolved", value |-> value]
Rejected(error) == [state |-> "rejected", error |-> error]

\* parseFileSync that returns whatever it collected
parseFileSyncFinishNoCheck(a) ==
    Resolved([meta |-> a.meta, members |-> a.members, messages |-> a.messages])

\* parseFileSync: after the loop
parseFileSyncFinish(a) ==
    IF a.meta = Null THEN Rejected(NoMetaError)
    ELSE Resolved([meta |-> a.meta, members |-> a.members, messages |-> a.messages])

\* parseFileSync over a whole sequence of events: the loop, then the check
RECURSIVE parseFileSyncLoop(_, _)
parseFileSyncLoop(events, a) ==
    IF events = <<>> THEN parseFileSyncFinish(a)
    ELSE LET h == parseFileSyncOnEvent(Head(events), a, <<>>, FALSE)
         IN IF h.thrown # Null THEN Rejected(h.thrown)
            ELSE parseFileSyncLoop(Tail(events), h.collected)

parseFileSync(events) ==
    parseFileSyncLoop(events, [meta |-> Null, members |-> <<>>, messages |-> <<>>])

\* let name = '未知群聊'
UnknownGroupName == "unknown group"

\* parseFileInfo whose name and platform start empty
parseFileInfoStartEmpty(feature) ==
    [name |-> "", platform |-> "",
     messageCount |-> 0, memberCount |-> 0]

\* parseFileInfo: the locals before the loop
parseFileInfoStart(feature) ==
    [name |-> UnknownGroupName, platform |-> feature.platform,
     messageCount |-> 0, memberCount |-> 0]

\* parseFileInfo that counts the batches, not their elements
parseFileInfoOnEventCountBatches(event, a, cs, onProgressGiven) ==
    CASE event.type = "meta" ->
            [collected |-> [a EXCEPT !.name = event.data.name,
                                     !.platform = event.data.platform],
             calls |-> cs, thrown |-> Null]
      [] event.type = "members" ->
            [collected |-> [a EXCEPT !.memberCount = @ + 1],
             calls |-> cs, thrown |-> Null]
      [] event.type = "messages" ->
            [collected |-> [a EXCEPT !.messageCount = @ + 1],
             calls |-> cs, thrown |-> Null]
      [] event.type = "progress" ->
            [collected |-> a,
             calls |-> IF onProgressGiven
                       THEN Append(cs, Call("onProgress", event.data)) ELSE cs,
             thrown |-> Null]
      [] event.type = "error" ->
            [collected |-> a, calls |-> cs, thrown |-> event.data]

\* parseFileInfo whose switch has no case 'progress'
parseFileInfoOnEventNoProgress(event, a, cs, onProgressGiven) ==
    CASE event.type = "meta" ->
            [collected |-> [a EXCEPT !.name = event.data.name,
                                     !.platform = event.data.platform],
             calls |-> cs, thrown |-> Null]
      [] event.type = "members" ->
            [collected |-> [a EXCEPT !.memberCount = @ + Len(event.data)],
             calls |-> cs, thrown |-> Null]
      [] event.type = "messages" ->
            [collected |-> [a EXCEPT !.messageCount = @ + Len(event.data)],
             calls |-> cs, thrown |-> Null]
      [] event.type = "progress" ->
            [collected |-> a, calls |-> cs, thrown |-> Null]
      [] event.type = "error" ->
            [collected |-> a, calls |-> cs, thrown |-> event.data]

\* parseFileInfo: the body of the for await loop
parseFileInfoOnEvent(event, a, cs, onProgressGiven) ==
    CASE event.type = "meta" ->
            [collected |-> [a EXCEPT !.name = event.data.name,
                                     !.platform = event.data.platform],
             calls |-> cs, thrown |-> Null]
      [] event.type = "members" ->
            [collected |-> [a EXCEPT !.memberCount = @ + Len(event.data)],
             calls |-> cs, thrown |-> Null]
      [] event.type = "messages" ->
            [collected |-> [a EXCEPT !.messageCount = @ + Len(event.data)],
             calls |-> cs, thrown |-> Null]
      [] event.type = "progress" ->
            [collected |-> a,
             calls |-> IF onProgressGiven
                       THEN Append(cs, Call("onProgress", event.data)) ELSE cs,
             thrown |-> Null]
      [] event.type = "error" ->
            [collected |-> a, calls |-> cs, thrown |-> event.data]

\* fs.statSync(filePath).size
statSize(file) == Len(file.content)

\* parseFileInfo: after the loop
parseFileInfoFinish(a, feature, file) ==
    Resolved([name |-> a.name, format |-> feature.name, platform |-> a.platform,
              messageCount |-> a.messageCount, memberCount |-> a.memberCount,
              fileSize |-> statSize(file)])


\* the files parseFile is called on: two recognized, one not, one unreadable
ParseFiles ==
    {[ext |-> EXT_JSON, content |-> ContentAB, readable |-> TRUE],
     [ext |-> EXT_TXT, content |-> ContentText, readable |-> TRUE],
     [ext |-> EXT_JSON, content |-> ContentText, readable |-> TRUE],
     [ext |-> EXT_JSON, content |-> <<>>, readable |-> FALSE]}

\* const sniffer = createSniffer(); sniffer.registerAll(formats)
ParseInit ==
    /\ formats = registerAll(<<>>, DefaultFormats)
    /\ regs = DefaultFormats
    /\ op = "registerAll"
    /\ arg = DefaultFormats
    /\ ret = Undefined
    /\ ParseIdle
    /\ IpcIdle
    /\ ChatIdle
    /\ ViewIdle

NoParseRunning == pf \in {"idle", "completed", "threw"}

\* a consumer calls parseFile(options): the generator is created suspended
Begin(api, file) ==
    /\ NoParseRunning
    /\ consumer' = api
    /\ pfile' = file
    /\ pf' = "suspendedStart"
    /\ yielded' = <<>>
    /\ calls' = <<>>
    /\ collected' = [meta |-> Null, members |-> <<>>, messages |-> <<>>]
    /\ outcome' = [state |-> "pending"]
    /\ UNCHANGED snifferVars
    /\ UNCHANGED ipcVars
    /\ UNCHANGED <<chatVars, viewVars>>

\* for await (const event of parseFile(options)) { }: a consumer that reads
\* the whole sequence
CallParseFile(file) == Begin([api |-> "iterate"], file)

CallStreamParseFile(file) == Begin([api |-> "streamParseFile"], file)

CallParseFileSync(file, onProgressGiven) ==
    Begin([api |-> "parseFileSync", onProgress |-> onProgressGiven], file)

\* parseFileInfo(filePath, onProgress): sniff first; it throws before the
\* sequence is created when sniff throws or returns null
CallParseFileInfo(file, onProgressGiven) ==
    /\ NoParseRunning
    /\ LET feature == sniff(formats, file) IN
       /\ consumer' = [api |-> "parseFileInfo", onProgress |-> onProgressGiven,
                       feature |-> feature]
       /\ IF feature = Threw
          THEN /\ pf' = "idle"
               /\ outcome' = Rejected(FsError(file))
               /\ collected' = Null
          ELSE IF feature = Null
          THEN /\ pf' = "idle"
               /\ outcome' = Rejected(UnrecognizedError(file))
               /\ collected' = Null
          ELSE /\ pf' = "suspendedStart"
               /\ outcome' = [state |-> "pending"]
               /\ collected' = parseFileInfoStart(feature)
    /\ pfile' = file
    /\ yielded' = <<>>
    /\ calls' = <<>>
    /\ UNCHANGED snifferVars
    /\ UNCHANGED ipcVars
    /\ UNCHANGED <<chatVars, viewVars>>

Running ==
    /\ pf \in {"suspendedStart", "yieldedError", "delegating"}
    /\ outcome.state = "pending"

\* the loop body of the consumer, applied to one event
OnEvent(event) ==
    IF consumer.api = "streamParseFile"
    THEN LET h == streamParseFileOnEvent(event, calls)
         IN [collected |-> collected, calls |-> h.calls, thrown |-> h.thrown]
    ELSE IF consumer.api = "parseFileSync"
    THEN parseFileSyncOnEvent(event, collected, calls, consumer.onProgress)
    ELSE IF consumer.api = "parseFileInfo"
    THEN parseFileInfoOnEvent(event, collected, calls, consumer.onProgress)
    ELSE [collected |-> collected, calls |-> calls, thrown |-> Null]

\* what the consumer does when the sequence has ended
OnEnd ==
    IF consumer.api = "parseFileSync" THEN parseFileSyncFinish(collected)
    ELSE IF consumer.api = "parseFileInfo"
    THEN parseFileInfoFinish(collected, consumer.feature, pfile)
    ELSE Resolved(Undefined)

\* next() makes parseFile yield an event, and the loop body runs on it; a
\* throw in the loop body closes the generator and rejects the promise
NextYields(inner) ==
    /\ Running
    /\ LET r == parseFileStep(pf, formats, pfile, inner) IN
       /\ r.out.kind = "yield"
       /\ yielded' = Append(yielded, r.out.event)
       /\ LET h == OnEvent(r.out.event) IN
          /\ calls' = h.calls
          /\ collected' = h.collected
          /\ IF h.thrown # Null
             THEN pf' = "completed" /\ outcome' = Rejected(h.thrown)
             ELSE pf' = r.pf /\ UNCHANGED outcome
    /\ UNCHANGED <<pfile, consumer>>
    /\ UNCHANGED snifferVars
    /\ UNCHANGED ipcVars
    /\ UNCHANGED <<chatVars, viewVars>>

\* next() finds the sequence at its end: the loop is left
NextReturns(inner) ==
    /\ Running
    /\ LET r == parseFileStep(pf, formats, pfile, inner) IN
       /\ r.out.kind = "return"
       /\ pf' = r.pf
    /\ outcome' = OnEnd
    /\ UNCHANGED <<pfile, consumer, yielded, calls, collected>>
    /\ UNCHANGED snifferVars
    /\ UNCHANGED ipcVars
    /\ UNCHANGED <<chatVars, viewVars>>

\* next() rejects: an exception left the generator
NextThrows(inner) ==
    /\ Running
    /\ LET r == parseFileStep(pf, formats, pfile, inner) IN
       /\ r.out.kind = "throw"
       /\ pf' = r.pf
       /\ outcome' = Rejected(r.out.error)
    /\ UNCHANGED <<pfile, consumer, yielded, calls, collected>>
    /\ UNCHANGED snifferVars
    /\ UNCHANGED ipcVars
    /\ UNCHANGED <<chatVars, viewVars>>

ParseNext ==
    \/ \E file \in ParseFiles : CallParseFile(file)
    \/ \E file \in ParseFiles : CallStreamParseFile(file)
    \/ \E file \in ParseFiles, given \in BOOLEAN : CallParseFileSync(file, given)
    \/ \E file \in ParseFiles, given \in BOOLEAN : CallParseFileInfo(file, given)
    \/ \E inner \in ParserSteps(yielded) : NextYields(inner)
    \/ \E inner \in ParserSteps(yielded) : NextReturns(inner)
    \/ \E inner \in ParserSteps(yielded) : NextThrows(inner)

ParseSpec == ParseInit /\ [][ParseNext]_vars

(***************************************************************************)
(* index.ts: the functions the IPC handlers call on the global sniffer.    *)
(***************************************************************************)
detectFormat(fs, filePath) == sniff(fs, filePath)

diagnoseFormat(fs, filePath) == diagnose(fs, filePath)

(***************************************************************************)
(* The IPC handlers of the chat channels.  A string that an error message  *)
(* is built from is a record of its parts.                                 *)
(***************************************************************************)
Str(text) == [str |-> text]

\* String(error) of an Error: "Error: " and the message
String(error) == [str |-> "Error: ", message |-> error.message]

UNRECOGNIZED_FORMAT == Str("error.unrecognized_format")

\* win.webContents.send('chat:importProgress', payload)
Send(log, payload) == Append(log, payload)

\* the payload the progress callback of chat:import builds from a ParseProgress
forwardProgress(progress) ==
    [stage |-> progress.stage, progress |-> progress.percentage,
     message |-> progress.message]

\* the diagnosis object of the responses: suggestion, and formatName and
\* missingFields of each partial match
diagnosisOf(diagnosis) ==
    [suggestion |-> diagnosis.suggestion,
     partialMatches |->
         [i \in 1..Len(diagnosis.partialMatches) |->
             [formatName |-> diagnosis.partialMatches[i].formatName,
              missingFields |-> diagnosis.partialMatches[i].missingFields]]]

\* chat:selectFile once a file is chosen: formatFeature is what detectFormat
\* returned, diagnosis what diagnoseFormat returns when it is called
chatSelectFileOn(filePath, formatFeature, diagnosis) ==
    IF formatFeature = Threw THEN [error |-> String(FsError(filePath))]
    ELSE IF formatFeature = Null \/ formatFeature.name = ""
    THEN IF diagnosis = Threw THEN [error |-> String(FsError(filePath))]
         ELSE [error |-> UNRECOGNIZED_FORMAT, diagnosis |-> diagnosisOf(diagnosis)]
    ELSE [filePath |-> filePath, format |-> formatFeature.name]

\* chat:selectFile after the dialog closed
chatSelectFile(fs, canceled, filePaths) ==
    IF canceled \/ Len(filePaths) = 0 THEN Null
    ELSE chatSelectFileOn(filePaths[1], detectFormat(fs, filePaths[1]),
                          diagnoseFormat(fs, filePaths[1]))

\* chat:import: the catch block
chatImportCatch(error, log) ==
    [sent |-> Send(log, [stage |-> "error", progress |-> 0,
                         message |-> String(error)]),
     response |-> [success |-> FALSE, error |-> String(error)]]

\* chat:import that returns the failure without a diagnosis
chatImportOnResultNoDiagnosis(result, fs, filePath, log) ==
    IF result.success
    THEN [sent |-> log,
          response |-> [success |-> TRUE, sessionId |-> result.sessionId]]
    ELSE [sent |-> Send(log, [stage |-> "error", progress |-> 0,
                              message |-> result.error]),
          response |-> [success |-> FALSE, error |-> result.error]]

\* chat:import, the branch of a failed import after its 'error' message was
\* sent (log); diagnosis is what diagnoseFormat returns when it is called
chatImportOnFailure(result, diagnosis, filePath, log) ==
    IF result.error = UNRECOGNIZED_FORMAT
    THEN IF diagnosis = Threw THEN chatImportCatch(FsError(filePath), log)
         ELSE [sent |-> log,
               response |-> [success |-> FALSE, error |-> result.error,
                             diagnosis |-> diagnosisOf(diagnosis)]]
    ELSE [sent |-> log, response |-> [success |-> FALSE, error |-> result.error]]

\* chat:import after worker.streamImport resolved with result
chatImportOnResult(result, fs, filePath, log) ==
    IF result.success
    THEN [sent |-> log,
          response |-> [success |-> TRUE, sessionId |-> result.sessionId]]
    ELSE chatImportOnFailure(result, diagnoseFormat(fs, filePath), filePath,
                             Send(log, [stage |-> "error", progress |-> 0,
                                        message |-> result.error]))

\* the destructive operation of each handler that closes the database first
DestructiveOp(handler) ==
    CASE handler = "chat:deleteSession" -> "databaseCore.deleteSession"
      [] handler = "chat:renameSession" -> "databaseCore.renameSession"
      [] handler = "chat:deleteMember" -> "worker.deleteMember"
      [] handler = "chat:updateSessionOwnerId" -> "databaseCore.updateSessionOwnerId"

DestructiveHandlers ==
    {"chat:deleteSession", "chat:renameSession", "chat:deleteMember",
     "chat:updateSessionOwnerId"}

LogCall(fn, sessionId) == [event |-> "call", fn |-> fn, sessionId |-> sessionId]
LogResolved(fn, sessionId) == [event |-> "resolved", fn |-> fn, sessionId |-> sessionId]
LogRejected(fn, sessionId) == [event |-> "rejected", fn |-> fn, sessionId |-> sessionId]

\* a handler that goes on to the operation whatever closeDatabase did
afterCloseDatabaseIgnoringFailure(handler, sessionId, closed, log) ==
    [dblog |-> log \o <<IF closed THEN LogResolved("worker.closeDatabase", sessionId)
                        ELSE LogRejected("worker.closeDatabase", sessionId),
                        LogCall(DestructiveOp(handler), sessionId)>>,
     caught |-> FALSE]

\* the handler resumed after `await worker.closeDatabase(sessionId)`: the
\* rejection goes to the catch block, otherwise the operation is called
afterCloseDatabase(handler, sessionId, closed, log) ==
    IF ~closed
    THEN [dblog |-> Append(log, LogRejected("worker.closeDatabase", sessionId)),
          caught |-> TRUE]
    ELSE [dblog |-> log \o <<LogResolved("worker.closeDatabase", sessionId),
                             LogCall(DestructiveOp(handler), sessionId)>>,
          caught |-> FALSE]

\* the operation's outcome as the handler returns it: its result, or false
\* from the catch block when it threw
OpOutcomes == {[threw |-> FALSE, value |-> TRUE], [threw |-> FALSE, value |-> FALSE],
               [threw |-> TRUE, value |-> FALSE]}

returnOf(opOutcome) == IF opOutcome.threw THEN FALSE ELSE opOutcome.value

(***************************************************************************)
(* The handlers as a state machine.  worker.streamImport, the database and *)
(* the dialog are the environment.                                         *)
(***************************************************************************)
SessionIds == {"s1", "s2"}

\* the ParseProgress values the import reports, non-decreasing in percentage
ImportProgress ==
    {[stage |-> "reading", percentage |-> 10, message |-> "reading"],
     [stage |-> "parsing", percentage |-> 50, message |-> "parsing"],
     [stage |-> "saving", percentage |-> 90, message |-> "saving"],
     [stage |-> "done", percentage |-> 100, message |-> "done"]}

\* what worker.streamImport resolves with
ImportResults ==
    {[success |-> TRUE, sessionId |-> id] : id \in SessionIds}
    \cup {[success |-> FALSE, error |-> e] :
            e \in {UNRECOGNIZED_FORMAT, Str("error.import_failed")}}

WorkerError == [message |-> "worker terminated"]

IpcInit ==
    /\ formats = registerAll(<<>>, DefaultFormats)
    /\ regs = DefaultFormats
    /\ op = "registerAll"
    /\ arg = DefaultFormats
    /\ ret = Undefined
    /\ ParseIdle
    /\ IpcIdle
    /\ ChatIdle
    /\ ViewIdle

NoHandlerRunning == ipc.pc = "done"

\* ipcMain.handle('chat:selectFile'): the dialog's result is the input
ChatSelectFile(canceled, filePaths) ==
    /\ NoHandlerRunning
    /\ ipc' = [handler |-> "chat:selectFile", pc |-> "done",
               canceled |-> canceled, filePaths |-> filePaths]
    /\ response' = Resolved(chatSelectFile(formats, canceled, filePaths))
    /\ worker' = [state |-> "none"]
    /\ sent' = <<>>
    /\ dblog' = <<>>
    /\ UNCHANGED <<snifferVars, parseVars, chatVars, viewVars>>

\* ipcMain.handle('chat:import'): the 'detecting' message is sent and
\* worker.streamImport is awaited
ChatImport(filePath) ==
    /\ NoHandlerRunning
    /\ ipc' = [handler |-> "chat:import", pc |-> "awaitStreamImport",
               filePath |-> filePath]
    /\ sent' = Send(<<>>, [stage |-> "detecting", progress |-> 5,
                           message |-> Str("")])
    /\ worker' = [state |-> "running", percentage |-> 0]
    /\ response' = [state |-> "pending"]
    /\ dblog' = <<>>
    /\ UNCHANGED <<snifferVars, parseVars, chatVars, viewVars>>

ImportRunning ==
    /\ ipc.handler = "chat:import"
    /\ ipc.pc = "awaitStreamImport"
    /\ worker.state = "running"

\* the import reports progress: the callback of chat:import forwards it
StreamImportProgress(progress) ==
    /\ ImportRunning
    /\ Len(sent) < MaxNotifications
    /\ progress.percentage >= worker.percentage
    /\ worker' = [worker EXCEPT !.percentage = progress.percentage]
    /\ sent' = Send(sent, forwardProgress(progress))
    /\ UNCHANGED <<ipc, dblog, response, snifferVars, parseVars, chatVars, viewVars>>

\* the import ends: 'unrecognized format' when no parser matches the file,
\* success only for a file a parser matches
StreamImportResolves(result) ==
    /\ ImportRunning
    /\ (~result.success /\ result.error = UNRECOGNIZED_FORMAT) =>
          getParser(formats, ipc.filePath) = Null
    /\ result.success =>
          getParser(formats, ipc.filePath) \notin {Null, Threw}
    /\ worker' = Resolved(result)
    /\ UNCHANGED <<ipc, sent, dblog, response, snifferVars, parseVars, chatVars, viewVars>>

\* worker.streamImport rejects
StreamImportRejects ==
    /\ ImportRunning
    /\ worker' = Rejected(WorkerError)
    /\ UNCHANGED <<ipc, sent, dblog, response, snifferVars, parseVars, chatVars, viewVars>>

\* the file is removed or made unreadable while chat:import awaits
FileBecomesUnreadable ==
    /\ ipc.handler = "chat:import"
    /\ ipc.pc = "awaitStreamImport"
    /\ ipc.filePath.readable
    /\ ipc' = [ipc EXCEPT !.filePath.readable = FALSE]
    /\ UNCHANGED <<worker, sent, dblog, response, snifferVars, parseVars, chatVars, viewVars>>

\* chat:import returns: r has the messages sent and the response
ChatImportReturns(r) ==
    /\ sent' = r.sent
    /\ response' = Resolved(r.response)
    /\ ipc' = [ipc EXCEPT !.pc = "done"]
    /\ UNCHANGED <<worker, dblog, snifferVars, parseVars, chatVars, viewVars>>

\* chat:import resumes after the await
ChatImportResumes ==
    /\ ipc.handler = "chat:import"
    /\ ipc.pc = "awaitStreamImport"
    /\ worker.state \in {"resolved", "rejected"}
    /\ ChatImportReturns(
          IF worker.state = "resolved"
          THEN chatImportOnResult(worker.value, formats, ipc.filePath, sent)
          ELSE chatImportCatch(worker.error, sent))

\* chat:deleteSession, chat:renameSession, chat:deleteMember and
\* chat:updateSessionOwnerId: worker.closeDatabase is called and awaited
CallDestructive(handler, sessionId) ==
    /\ NoHandlerRunning
    /\ ipc' = [handler |-> handler, pc |-> "awaitCloseDatabase",
               sessionId |-> sessionId]
    /\ dblog' = <<LogCall("worker.closeDatabase", sessionId)>>
    /\ response' = [state |-> "pending"]
    /\ worker' = [state |-> "none"]
    /\ sent' = <<>>
    /\ UNCHANGED <<snifferVars, parseVars, chatVars, viewVars>>

\* closeDatabase settles and the handler resumes; an operation of
\* databaseCore runs to its end, worker.deleteMember is awaited
CloseDatabaseSettles(closed, opOutcome) ==
    /\ ipc.handler \in DestructiveHandlers
    /\ ipc.pc = "awaitCloseDatabase"
    /\ LET r == afterCloseDatabase(ipc.handler, ipc.sessionId, closed, dblog) IN
       /\ dblog' = r.dblog
       /\ IF r.caught
          THEN /\ response' = Resolved(FALSE)
               /\ ipc' = [ipc EXCEPT !.pc = "done"]
          ELSE IF ipc.handler = "chat:deleteMember"
          THEN /\ UNCHANGED response
               /\ ipc' = [ipc EXCEPT !.pc = "awaitDeleteMember"]
          ELSE /\ response' = Resolved(returnOf(opOutcome))
               /\ ipc' = [ipc EXCEPT !.pc = "done"]
    /\ UNCHANGED <<worker, sent, snifferVars, parseVars, chatVars, viewVars>>

\* worker.deleteMember settles and chat:deleteMember returns
DeleteMemberSettles(opOutcome) ==
    /\ ipc.handler = "chat:deleteMember"
    /\ ipc.pc = "awaitDeleteMember"
    /\ dblog' = Append(dblog,
                   IF opOutcome.threw
                   THEN LogRejected("worker.deleteMember", ipc.sessionId)
                   ELSE LogResolved("worker.deleteMember", ipc.sessionId))
    /\ response' = Resolved(returnOf(opOutcome))
    /\ ipc' = [ipc EXCEPT !.pc = "done"]
    /\ UNCHANGED <<worker, sent, snifferVars, parseVars, chatVars, viewVars>>

IpcNext ==
    \/ \E canceled \in BOOLEAN, f \in ParseFiles :
          \E filePaths \in {<<>>, <<f>>} : ChatSelectFile(canceled, filePaths)
    \/ \E filePath \in ParseFiles : ChatImport(filePath)
    \/ \E progress \in ImportProgress : StreamImportProgress(progress)
    \/ \E result \in ImportResults : StreamImportResolves(result)
    \/ StreamImportRejects
    \/ FileBecomesUnreadable
    \/ ChatImportResumes
    \/ \E handler \in DestructiveHandlers, sessionId \in SessionIds :
          CallDestructive(handler, sessionId)
    \/ \E closed \in BOOLEAN, opOutcome \in OpOutcomes :
          CloseDatabaseSettles(closed, opOutcome)
    \/ \E opOutcome \in OpOutcomes : DeleteMemberSettles(opOutcome)

IpcSpec == IpcInit /\ [][IpcNext]_vars

(***************************************************************************)
(* composables/useAIChat.ts: the AI chat.  The refs of the composable are  *)
(* the fields of chat; a text is a sequence of tokens.                     *)
(***************************************************************************)
\* generateId: a fresh id; n tells the ids of one prefix apart
generateId(prefix, n) == [prefix |-> prefix, n |-> n]

\* the texts of the assistant messages that sendMessage writes itself
ConfigureFirst == <<"please configure the AI service first">>
NotFoundText(keywords) == <<"no related chat records found for">> \o keywords
FailedText(error) == <<"processing failed", error.message>>

\* a slot of an array that was never assigned
Hole == [hole |-> TRUE]

\* arr[index] of a JavaScript array (index from 0)
ArrayAt(arr, index) ==
    IF index + 1 <= Len(arr) /\ arr[index + 1] # Hole
    THEN arr[index + 1] ELSE Undefined

\* arr[index] = value: an index behind the end lengthens the array
ArraySet(arr, index, value) ==
    IF index + 1 <= Len(arr) THEN [arr EXCEPT ![index + 1] = value]
    ELSE arr \o [k \in 1..(index - Len(arr)) |-> Hole] \o <<value>>

\* { ...obj, ...props }: spreading undefined adds nothing
Spread(obj, props) ==
    IF obj = Undefined THEN props
    ELSE [k \in DOMAIN obj \cup DOMAIN props |->
             IF k \in DOMAIN props THEN props[k] ELSE obj[k]]

\* what sendMessage keeps of one call: its argument, its position (pc), its
\* locals, and, as history, whether another call was unresolved when it was
\* made, the conversation current at that moment, the messages it appended,
\* the APIs it called, the awaited calls that failed and the error messages
\* that its catch block appended
NewCall(content, c, overlapped) ==
    [content |-> content, pc |-> "hasConfig", outcome |-> "pending",
     overlapped |-> overlapped, startConversationId |-> c.currentConversationId,
     appended |-> 0, called |-> {}, failures |-> {}, errors |-> 0,
     userMessage |-> Null, keywords |-> <<>>, searchResults |-> Null,
     aiMessageId |-> Null,
     aiMessageIndex |-> 0, accumulatedContent |-> <<>>, aiMsg |-> Null]

\* the result of a step of sendMessage: the refs, the call, the API log
Step(c, p, log) == [chat |-> c, p |-> p, log |-> log]

\* the call after one of the API calls it awaited has rejected
failed(p, api) == [p EXCEPT !.failures = @ \cup {api}]

\* a sendMessage that resolves without its finally block
finallySkipped(c, p, log) ==
    Step(c, [p EXCEPT !.pc = "done", !.outcome = "resolved"], log)

\* the finally block of sendMessage, after which the call resolves
finally(c, p, log) ==
    Step([c EXCEPT !.isAIThinking = FALSE, !.isLoadingSource = FALSE],
         [p EXCEPT !.pc = "done", !.outcome = "resolved"], log)

\* the catch block of sendMessage: an assistant message with the error
catch(c, p, log, i, error) ==
    finally([c EXCEPT !.messages =
                 Append(@, [id |-> generateId("error", i), role |-> "assistant",
                            content |-> FailedText(error)])],
            [p EXCEPT !.appended = @ + 1, !.errors = @ + 1,
                      !.failures = @ \cup {error.message}], log)

\* the title of a new conversation: the first 50 characters of the question
titleOf(content) ==
    IF Len(content) > 50 THEN SubSeq(content, 1, 50) \o <<".", ".", ".">> ELSE content

\* window.aiApi.addMessage(currentConversationId.value, role, content): the
\* call as it reaches the API
addMessage(c, i, role, content) ==
    [api |-> "addMessage", conversationId |-> c.currentConversationId,
     role |-> role, content |-> content, by |-> i]

\* saveConversation up to its first await
saveConversation(c, p, log, i, userMsg, aiMsg) ==
    IF c.currentConversationId = Null
    THEN Step(c,
              [p EXCEPT !.pc = "createConversation", !.aiMsg = aiMsg,
                        !.called = @ \cup {"createConversation"}],
              Append(log, [api |-> "createConversation",
                           title |-> titleOf(userMsg.content), by |-> i]))
    ELSE Step(c,
              [p EXCEPT !.pc = "addUserMessage", !.aiMsg = aiMsg,
                        !.called = @ \cup {"addMessage"}],
              Append(log, addMessage(c, i, "user", userMsg.content)))

\* step 5 of sendMessage: the final assistant message is read back from the
\* list; reading the length of a content that is not there throws
saveStep(c, p, log, i) ==
    LET finalAiMessage == ArrayAt(c.messages, p.aiMessageIndex)
    IN IF finalAiMessage = Undefined \/ "content" \notin DOMAIN finalAiMessage
       THEN catch(c, p, log, i, [message |-> "TypeError"])
       ELSE saveConversation(c, p, log, i, p.userMessage, finalAiMessage)

\* a sendMessage that asks the LLM for a summary whatever the search found
respondStepStreamsAnyway(c, p, log, i, searchResults) ==
    LET aiMessage ==
            [id |-> generateId("ai", i), role |-> "assistant", content |-> <<>>,
             dataSource |-> [keywords |-> p.keywords,
                             messageCount |-> Len(searchResults)],
             isStreaming |-> TRUE]
        pushed == Append(c.messages, aiMessage)
    IN Step([c EXCEPT !.sourceMessages = searchResults,
                      !.isLoadingSource = FALSE,
                      !.messages = pushed],
            [p EXCEPT !.searchResults = searchResults,
                      !.aiMessageId = aiMessage.id,
                      !.aiMessageIndex = Len(pushed) - 1,
                      !.appended = @ + 1,
                      !.pc = "chatStream",
                      !.called = @ \cup {"chatStream"}], log)

\* steps 3 and 4 of sendMessage, entered with the search results
respondStep(c, p, log, i, searchResults) ==
    LET aiMessage ==
            [id |-> generateId("ai", i), role |-> "assistant", content |-> <<>>,
             dataSource |-> [keywords |-> p.keywords,
                             messageCount |-> Len(searchResults)],
             isStreaming |-> TRUE]
        pushed == Append(c.messages, aiMessage)
        aiMessageIndex == Len(pushed) - 1
        p1 == [p EXCEPT !.searchResults = searchResults,
                        !.aiMessageId = aiMessage.id,
                        !.aiMessageIndex = aiMessageIndex,
                        !.appended = @ + 1]
        c1 == [c EXCEPT !.sourceMessages = searchResults,
                        !.isLoadingSource = FALSE,
                        !.messages = pushed]
    IN IF Len(searchResults) = 0
       THEN saveStep([c1 EXCEPT !.messages =
                          ArraySet(@, aiMessageIndex,
                              Spread(ArrayAt(@, aiMessageIndex),
                                     [content |-> NotFoundText(p.keywords),
                                      isStreaming |-> FALSE]))],
                     p1, log, i)
       ELSE Step(c1, [p1 EXCEPT !.pc = "chatStream",
                                !.called = @ \cup {"chatStream"}], log)

\* step 2 of sendMessage, entered with the keywords: searchRelatedMessages
\* returns at once without keywords
searchStep(c, p, log, i, keywords) ==
    IF Len(keywords) = 0
    THEN respondStep([c EXCEPT !.currentKeywords = keywords],
                     [p EXCEPT !.keywords = keywords], log, i, <<>>)
    ELSE Step([c EXCEPT !.currentKeywords = keywords],
              [p EXCEPT !.keywords = keywords, !.pc = "searchMessages",
                        !.called = @ \cup {"searchMessages"}], log)

\* a sendMessage that adds the user message and starts processing before it
\* looks at the answer of llmApi.hasConfig()
configStepUserFirst(c, p, log, i, hasConfig) ==
    LET userMessage == [id |-> generateId("user", i), role |-> "user",
                        content |-> p.content]
        c1 == [c EXCEPT !.messages = Append(@, userMessage),
                        !.isAIThinking = TRUE,
                        !.isLoadingSource = TRUE]
    IN IF ~hasConfig
       THEN Step([c1 EXCEPT !.messages =
                      Append(@, [id |-> generateId("error", i), role |-> "assistant",
                                 content |-> ConfigureFirst])],
                 [p EXCEPT !.pc = "done", !.outcome = "resolved", !.appended = @ + 2],
                 log)
       ELSE Step(c1,
                 [p EXCEPT !.userMessage = userMessage, !.appended = @ + 1,
                           !.pc = "extractKeywords",
                           !.called = @ \cup {"chat"}],
                 log)

\* sendMessage after llmApi.hasConfig() has resolved
configStep(c, p, log, i, hasConfig) ==
    IF ~hasConfig
    THEN Step([c EXCEPT !.messages =
                   Append(@, [id |-> generateId("error", i), role |-> "assistant",
                              content |-> ConfigureFirst])],
              [p EXCEPT !.pc = "done", !.outcome = "resolved", !.appended = @ + 1],
              log)
    ELSE LET userMessage == [id |-> generateId("user", i), role |-> "user",
                             content |-> p.content]
         IN Step([c EXCEPT !.messages = Append(@, userMessage),
                           !.isAIThinking = TRUE,
                           !.isLoadingSource = TRUE],
                 [p EXCEPT !.userMessage = userMessage, !.appended = @ + 1,
                           !.pc = "extractKeywords",
                           !.called = @ \cup {"chat"}],
                 log)

\* the callback that sendMessage hands to generateRAGResponse
onChunk(c, p, log, chunk) ==
    LET accumulatedContent == p.accumulatedContent \o chunk
    IN Step([c EXCEPT !.messages =
                  ArraySet(@, p.aiMessageIndex,
                      Spread(ArrayAt(@, p.aiMessageIndex),
                             [content |-> accumulatedContent]))],
            [p EXCEPT !.accumulatedContent = accumulatedContent], log)

\* sendMessage after generateRAGResponse has resolved
streamedStep(c, p, log, i) ==
    saveStep([c EXCEPT !.messages =
                  ArraySet(@, p.aiMessageIndex,
                      Spread(ArrayAt(@, p.aiMessageIndex),
                             [isStreaming |-> FALSE]))],
             p, log, i)

\* saveConversation after createConversation has resolved
createdStep(c, p, log, i, conversation) ==
    LET c1 == [c EXCEPT !.currentConversationId = conversation.id]
    IN Step(c1, [p EXCEPT !.pc = "addUserMessage",
                          !.called = @ \cup {"addMessage"}],
            Append(log, addMessage(c1, i, "user", p.userMessage.content)))

\* saveConversation after the user message has been saved
userSavedStep(c, p, log, i) ==
    Step(c, [p EXCEPT !.pc = "addAssistantMessage"],
         Append(log, addMessage(c, i, "assistant", p.aiMsg.content)))

\* a loadConversation that shows the loaded messages as streaming
fromHistoryStreaming(msg) ==
    [id |-> msg.id, role |-> msg.role, content |-> msg.content,
     timestamp |-> msg.timestamp * 1000, isStreaming |-> TRUE]

\* a message of the history as loadConversation maps it: the timestamp from
\* seconds to milliseconds, the data source from its two columns
fromHistory(msg) ==
    IF "dataKeywords" \in DOMAIN msg
    THEN [id |-> msg.id, role |-> msg.role, content |-> msg.content,
          timestamp |-> msg.timestamp * 1000,
          dataSource |-> [keywords |-> msg.dataKeywords,
                          messageCount |-> IF "dataMessageCount" \in DOMAIN msg
                                           THEN msg.dataMessageCount ELSE 0]]
    ELSE [id |-> msg.id, role |-> msg.role, content |-> msg.content,
          timestamp |-> msg.timestamp * 1000]

\* loadConversation after getMessages has resolved
loadConversation(c, conversationId, history) ==
    [c EXCEPT !.currentConversationId = conversationId,
              !.messages = [k \in 1..Len(history) |-> fromHistory(history[k])]]

\* startNewConversation(welcomeMessage?)
startNewConversation(c, welcomeGiven, n) ==
    [c EXCEPT !.currentConversationId = Null,
              !.messages =
                  IF welcomeGiven
                  THEN <<[id |-> generateId("welcome", n), role |-> "assistant",
                          content |-> <<"welcome">>]>>
                  ELSE <<>>,
              !.sourceMessages = <<>>,
              !.currentKeywords = <<>>]

\* the full-width comma
FWComma == "fwcomma"

\* the characters of /[\s,，。！？!?]/ (the full-width marks by name)
FallbackSeparators == {SP, NL, ",", FWComma, "fwstop", "fwbang", "fwquery", "!", "?"}

\* s.split(/[c]/) for the characters c of seps: every separator ends a piece
RECURSIVE SplitEach(_, _)
SplitEach(s, seps) ==
    IF \E k \in 1..Len(s) : s[k] \in seps
    THEN LET k == CHOOSE j \in 1..Len(s) :
                     s[j] \in seps /\ \A h \in 1..(j - 1) : s[h] \notin seps
         IN <<SubSeq(s, 1, k - 1)>> \o SplitEach(SubSeq(s, k + 1, Len(s)), seps)
    ELSE <<s>>

\* s.split(/[c]+/): a run of separators is one separator, so that only the
\* first and the last piece can be empty
SplitRuns(s, seps) ==
    LET pieces == SplitEach(s, seps)
        Kept(k) == pieces[k] # <<>> \/ k = 1 \/ k = Len(pieces)
        RECURSIVE From(_)
        From(k) == IF k > Len(pieces) THEN <<>>
                   ELSE (IF Kept(k) THEN <<pieces[k]>> ELSE <<>>) \o From(k + 1)
    IN From(1)

\* arr.slice(0, n)
SliceTo(arr, n) == SubSeq(arr, 1, Min(n, Len(arr)))

IsKeyword(k) == Len(k) > 0 /\ Len(k) < 20
IsWord(w) == Len(w) >= 2

\* the simple tokenization extractKeywords falls back to
fallbackTokens(question) ==
    SliceTo(SelectSeq(SplitRuns(question, FallbackSeparators), IsWord), 3)

\* an extractKeywords that returns every keyword the LLM listed
extractKeywordsUnsliced(question, result) ==
    IF result = Threw THEN Resolved(fallbackTokens(question))
    ELSE IF result.success /\ "content" \in DOMAIN result /\ result.content # <<>>
    THEN LET pieces == SplitEach(result.content, {",", FWComma})
         IN Resolved(SelectSeq([k \in 1..Len(pieces) |-> trim(pieces[k])], IsKeyword))
    ELSE Resolved(fallbackTokens(question))

\* extractKeywords(question), given how llmApi.chat ended (Threw when it
\* rejected, otherwise its result): how the promise it returns settles
extractKeywords(question, result) ==
    IF result = Threw THEN Resolved(fallbackTokens(question))
    ELSE IF result.success /\ "content" \in DOMAIN result /\ result.content # <<>>
    THEN LET pieces == SplitEach(result.content, {",", FWComma})
         IN Resolved(SliceTo(SelectSeq([k \in 1..Len(pieces) |-> trim(pieces[k])],
                                       IsKeyword), 5))
    ELSE Resolved(fallbackTokens(question))

(***************************************************************************)
(* The chat as a state machine.  The user (sendMessage, loadConversation,  *)
(* startNewConversation) and the APIs behind window.llmApi and             *)
(* window.aiApi are the environment; every await is a point where other    *)
(* actions can run.                                                        *)
(***************************************************************************)
\* what the user types: nothing, a space, a question
Contents == {<<>>, <<SP>>, <<"h", "i">>}

\* what extractKeywords returns
Keywords == {<<>>, <<"k">>}

\* what aiApi.searchMessages returns (searchRelatedMessages turns a failure
\* into the empty list)
SearchResults == {<<>>, <<"m1", "m2">>}

\* a chunk of the LLM stream
Chunk == <<"c">>

\* the conversations in the database at the start, and their messages
StoredConversations == {[conversation |-> "stored", n |-> 1]}
History(conversationId) ==
    <<[id |-> generateId("db", 1), role |-> "user", content |-> <<"o", "l", "d">>,
       timestamp |-> 1],
      [id |-> generateId("db", 2), role |-> "assistant", content |-> <<"answer">>,
       timestamp |-> 2, dataKeywords |-> <<"k">>, dataMessageCount |-> 2]>>

\* the conversation that aiApi.createConversation returns to call i
Created(i) == [id |-> [conversation |-> "created", n |-> i]]

ChatInit ==
    /\ formats = <<>>
    /\ regs = <<>>
    /\ op = "new"
    /\ arg = Null
    /\ ret = Undefined
    /\ ParseIdle
    /\ IpcIdle
    /\ ChatIdle
    /\ ViewIdle

\* a step of call i took the chat, the call and the API log to r
Becomes(i, r) ==
    /\ chat' = r.chat
    /\ sends' = [sends EXCEPT ![i] = r.p]
    /\ apilog' = r.log
    /\ UNCHANGED <<loads, switches>>
    /\ UNCHANGED <<snifferVars, parseVars, ipcVars, viewVars>>

\* call i of sendMessage is at the await of pc
Awaits(i, pc) == i \in 1..Len(sends) /\ sends[i].pc = pc

\* sendMessage(content) up to its first await
SendMessage(content) ==
    /\ Len(sends) < MaxSends
    /\ sends' =
          Append(sends,
              IF trim(content) = <<>> \/ chat.isAIThinking
              THEN [NewCall(content, chat, \E j \in 1..Len(sends) : sends[j].pc # "done")
                       EXCEPT !.pc = "done", !.outcome = "resolved"]
              ELSE NewCall(content, chat, \E j \in 1..Len(sends) : sends[j].pc # "done"))
    /\ UNCHANGED <<chat, loads, apilog, switches>>
    /\ UNCHANGED <<snifferVars, parseVars, ipcVars, viewVars>>

HasConfigResolves(i, hasConfig) ==
    /\ Awaits(i, "hasConfig")
    /\ Becomes(i, configStep(chat, sends[i], apilog, i, hasConfig))

HasConfigRejects(i) ==
    /\ Awaits(i, "hasConfig")
    /\ Becomes(i, Step(chat, [sends[i] EXCEPT !.pc = "done", !.outcome = "rejected",
                                              !.failures = @ \cup {"hasConfig"}],
                       apilog))

ExtractKeywordsReturns(i, keywords) ==
    /\ Awaits(i, "extractKeywords")
    /\ Becomes(i, searchStep(chat, sends[i], apilog, i, keywords))

SearchReturns(i, searchResults) ==
    /\ Awaits(i, "searchMessages")
    /\ Becomes(i, respondStep(chat, sends[i], apilog, i, searchResults))

\* aiApi.searchMessages rejects: searchRelatedMessages catches and returns []
SearchRejects(i) ==
    /\ Awaits(i, "searchMessages")
    /\ Becomes(i, respondStep(chat, failed(sends[i], "searchMessages"), apilog, i, <<>>))

StreamChunk(i) ==
    /\ Awaits(i, "chatStream")
    /\ Len(sends[i].accumulatedContent) < MaxChunks
    /\ Becomes(i, onChunk(chat, sends[i], apilog, Chunk))

StreamResolves(i) ==
    /\ Awaits(i, "chatStream")
    /\ Becomes(i, streamedStep(chat, sends[i], apilog, i))

StreamRejects(i) ==
    /\ Awaits(i, "chatStream")
    /\ Becomes(i, catch(chat, sends[i], apilog, i, [message |-> "stream failed"]))

CreateConversationSettles(i, ok) ==
    /\ Awaits(i, "createConversation")
    /\ Becomes(i, IF ok THEN createdStep(chat, sends[i], apilog, i, Created(i))
                  ELSE finally(chat, failed(sends[i], "createConversation"), apilog))

AddUserMessageSettles(i, ok) ==
    /\ Awaits(i, "addUserMessage")
    /\ Becomes(i, IF ok THEN userSavedStep(chat, sends[i], apilog, i)
                  ELSE finally(chat, failed(sends[i], "addMessage"), apilog))

AddAssistantMessageSettles(i, ok) ==
    /\ Awaits(i, "addAssistantMessage")
    /\ Becomes(i, finally(chat, IF ok THEN sends[i] ELSE failed(sends[i], "addMessage"),
                           apilog))

\* loadConversation(conversationId) up to its await
LoadConversation(conversationId) ==
    /\ switches < MaxSwitches
    /\ conversationId \notin loads
    /\ loads' = loads \cup {conversationId}
    /\ switches' = switches + 1
    /\ UNCHANGED <<chat, sends, apilog>>
    /\ UNCHANGED <<snifferVars, parseVars, ipcVars, viewVars>>

\* aiApi.getMessages settles and loadConversation resolves; the API log keeps
\* how the call ended
GetMessagesSettles(conversationId, ok) ==
    /\ conversationId \in loads
    /\ loads' = loads \ {conversationId}
    /\ chat' = IF ok THEN loadConversation(chat, conversationId, History(conversationId))
               ELSE chat
    /\ apilog' = Append(apilog, [api |-> "getMessages", conversationId |-> conversationId,
                                 ok |-> ok, by |-> 0])
    /\ UNCHANGED <<sends, switches>>
    /\ UNCHANGED <<snifferVars, parseVars, ipcVars, viewVars>>

StartNewConversation(welcomeGiven) ==
    /\ switches < MaxSwitches
    /\ chat' = startNewConversation(chat, welcomeGiven, switches + 1)
    /\ switches' = switches + 1
    /\ UNCHANGED <<sends, loads, apilog>>
    /\ UNCHANGED <<snifferVars, parseVars, ipcVars, viewVars>>

ChatNext ==
    \/ \E content \in Contents : SendMessage(content)
    \/ \E i \in 1..MaxSends, hasConfig \in BOOLEAN : HasConfigResolves(i, hasConfig)
    \/ \E i \in 1..MaxSends : HasConfigRejects(i)
    \/ \E i \in 1..MaxSends, keywords \in Keywords : ExtractKeywordsReturns(i, keywords)
    \/ \E i \in 1..MaxSends, searchResults \in SearchResults : SearchReturns(i, searchResults)
    \/ \E i \in 1..MaxSends : SearchRejects(i)
    \/ \E i \in 1..MaxSends : StreamChunk(i)
    \/ \E i \in 1..MaxSends : StreamResolves(i)
    \/ \E i \in 1..MaxSends : StreamRejects(i)
    \/ \E i \in 1..MaxSends, ok \in BOOLEAN : CreateConversationSettles(i, ok)
    \/ \E i \in 1..MaxSends, ok \in BOOLEAN : AddUserMessageSettles(i, ok)
    \/ \E i \in 1..MaxSends, ok \in BOOLEAN : AddAssistantMessageSettles(i, ok)
    \/ \E conversationId \in StoredConversations : LoadConversation(conversationId)
    \/ \E conversationId \in StoredConversations, ok \in BOOLEAN :
          GetMessagesSettles(conversationId, ok)
    \/ \E welcomeGiven \in BOOLEAN : StartNewConversation(welcomeGiven)

ChatSpec == ChatInit /\ [][ChatNext]_vars

\* an API call that call i of sendMessage awaits settles (llmApi.hasConfig
\* resolves), and the call goes on
Settles(i) ==
    \/ \E hasConfig \in BOOLEAN : HasConfigResolves(i, hasConfig)
    \/ \E keywords \in Keywords : ExtractKeywordsReturns(i, keywords)
    \/ \E searchResults \in SearchResults : SearchReturns(i, searchResults)
    \/ SearchRejects(i)
    \/ StreamResolves(i)
    \/ StreamRejects(i)
    \/ \E ok \in BOOLEAN : CreateConversationSettles(i, ok)
    \/ \E ok \in BOOLEAN : AddUserMessageSettles(i, ok)
    \/ \E ok \in BOOLEAN : AddAssistantMessageSettles(i, ok)

\* the user has acted fewer than MaxUserActions times (calls of sendMessage,
\* loadConversation and startNewConversation)
UserActs == Len(sends) + switches < MaxUserActions

ChatLiveNext ==
    \/ \E content \in Contents : UserActs /\ SendMessage(content)
    \/ \E i \in 1..MaxSends : Settles(i)
    \/ \E i \in 1..MaxSends : HasConfigRejects(i)
    \/ \E i \in 1..MaxSends : StreamChunk(i)
    \/ \E conversationId \in StoredConversations :
          UserActs /\ LoadConversation(conversationId)
    \/ \E conversationId \in StoredConversations, ok \in BOOLEAN :
          GetMessagesSettles(conversationId, ok)
    \/ \E welcomeGiven \in BOOLEAN : UserActs /\ StartNewConversation(welcomeGiven)

\* the chat when every awaited API call settles in the end
ChatLiveSpec ==
    ChatInit /\ [][ChatLiveNext]_vars /\ \A i \in 1..MaxSends : WF_vars(Settles(i))

(***************************************************************************)
(* extractKeywords on its own: the question and the answer of the LLM are  *)
(* drawn at the start, one action applies the function.                    *)
(***************************************************************************)
\* n times the letter x
Letters(n) == [i \in 1..n |-> "x"]

\* the pieces joined by the separator
RECURSIVE JoinWith(_, _)
JoinWith(pieces, sep) ==
    IF pieces = <<>> THEN <<>>
    ELSE IF Len(pieces) = 1 THEN pieces[1]
    ELSE pieces[1] \o <<sep>> \o JoinWith(Tail(pieces), sep)

\* what the LLM lists: one keyword; keywords with spaces around and empty
\* places; keywords of 19, 20 and 21 letters; six keywords; nothing but spaces
KeywordLists ==
    {<<<<"a", "b">>>>,
     <<<<"a">>, <<SP, "b", "c", SP>>, <<>>, <<SP>>, <<"d">>>>,
     <<Letters(19), Letters(20), <<SP>> \o Letters(19) \o <<SP>>, Letters(21)>>,
     <<<<"a">>, <<"b">>, <<"c">>, <<"d">>, <<"e">>, <<"f">>>>,
     <<<<SP, SP>>>>,
     <<<<"a", "!", "b">>, <<"c", NL>>>>}

\* how llmApi.chat can end
ChatResults ==
    {Threw, [success |-> FALSE, error |-> "failed"], [success |-> TRUE],
     [success |-> TRUE, content |-> <<>>]}
    \cup {[success |-> TRUE, content |-> JoinWith(list, sep)] :
             list \in KeywordLists, sep \in {",", FWComma}}

\* the questions of the user (sendMessage lets no blank question through)
Questions ==
    {<<"h", "i">>,
     <<"x">>,
     <<"h", "i", SP, "a", SP, "y", "o", ",", "w", "e", "fwstop", "g", "o", "?", "u", "p">>,
     <<"?", "!", "o", "k", SP, SP, "n", "o", "!">>,
     Letters(25)}

KeywordInit ==
    /\ formats = <<>>
    /\ regs = <<>>
    /\ op = "new"
    /\ \E question \in Questions, result \in ChatResults :
          arg = [question |-> question, result |-> result]
    /\ ret = Undefined
    /\ ParseIdle
    /\ IpcIdle
    /\ ChatIdle
    /\ ViewIdle

\* await extractKeywords(content)
ExtractKeywords ==
    /\ op = "new"
    /\ op' = "extractKeywords"
    /\ ret' = extractKeywords(arg.question, arg.result)
    /\ UNCHANGED <<formats, regs, arg>>
    /\ UNCHANGED <<parseVars, ipcVars, chatVars, viewVars>>

KeywordNext == ExtractKeywords

KeywordSpec == KeywordInit /\ [][KeywordNext]_vars

(***************************************************************************)
(* ConversationList.vue and ChatExplorer.vue: deleting a conversation.     *)
(* The list holds the ids of the conversations it shows.                   *)
(***************************************************************************)
\* what aiApi.getConversations returned when the list was mounted
ListedConversations ==
    <<[conversation |-> "stored", n |-> 1], [conversation |-> "stored", n |-> 2]>>

\* conversations.value.filter((c) => c.id !== convId)
withoutConversation(conversations, convId) ==
    SelectSeq(conversations, LAMBDA c : c # convId)

\* a handler of 'delete' that starts a new conversation whatever was deleted
handleDeleteConversationAlways(c, convId, n) == startNewConversation(c, TRUE, n)

\* ChatExplorer.handleDeleteConversation: generateWelcomeMessage() is never
\* empty
handleDeleteConversation(c, convId, n) ==
    IF c.currentConversationId = convId THEN startNewConversation(c, TRUE, n) ELSE c

DeleteInit ==
    /\ formats = <<>>
    /\ regs = <<>>
    /\ op = "new"
    /\ arg = Null
    /\ ret = Undefined
    /\ ParseIdle
    /\ IpcIdle
    /\ ChatIdle
    /\ convList = [conversations |-> ListedConversations, deleting |-> {},
                   emitted |-> <<>>, calls |-> 0]
    /\ view = ViewMounted

\* handleDelete(convId) up to its await
DeleteConversation(convId) ==
    /\ convList.calls < MaxDeletes
    /\ \E k \in 1..Len(convList.conversations) : convList.conversations[k] = convId
    /\ convId \notin convList.deleting
    /\ convList' = [convList EXCEPT !.deleting = @ \cup {convId}, !.calls = @ + 1]
    /\ UNCHANGED <<snifferVars, parseVars, ipcVars, chatVars, view>>

\* aiApi.deleteConversation settles: handleDelete filters the list and emits
\* 'delete', which runs handleDeleteConversation at once, or it ends in its
\* catch block; the API log keeps how the call ended
DeleteConversationSettles(convId, ok) ==
    /\ convId \in convList.deleting
    /\ IF ok
       THEN /\ convList' = [convList EXCEPT
                               !.deleting = @ \ {convId},
                               !.conversations = withoutConversation(@, convId),
                               !.emitted = Append(@, convId)]
            /\ chat' = handleDeleteConversation(chat, convId,
                                                switches + Len(convList.emitted) + 1)
       ELSE /\ convList' = [convList EXCEPT !.deleting = @ \ {convId}]
            /\ chat' = chat
    /\ apilog' = Append(apilog, [api |-> "deleteConversation",
                                 conversationId |-> convId, ok |-> ok, by |-> 0])
    /\ UNCHANGED <<sends, loads, switches, view>>
    /\ UNCHANGED <<snifferVars, parseVars, ipcVars>>

DeleteNext ==
    \/ \E content \in Contents : Len(sends) < MaxDeleteSends /\ SendMessage(content)
    \/ \E i \in 1..MaxSends : Settles(i)
    \/ \E i \in 1..MaxSends : HasConfigRejects(i)
    \/ \E i \in 1..MaxSends : StreamChunk(i)
    \/ \E conversationId \in StoredConversations : LoadConversation(conversationId)
    \/ \E conversationId \in StoredConversations, ok \in BOOLEAN :
          GetMessagesSettles(conversationId, ok)
    \/ \E k \in 1..Len(ListedConversations) : DeleteConversation(ListedConversations[k])
    \/ \E k \in 1..Len(ListedConversations), ok \in BOOLEAN :
          DeleteConversationSettles(ListedConversations[k], ok)

DeleteSpec == DeleteInit /\ [][DeleteNext]_vars

(***************************************************************************)
(* The import view (script setup of the home page's import area).  A       *)
(* string is a record holding its pieces, 'error.' being one piece; the    *)
(* refs of the view are the fields of view, pc is where the running        *)
(* handler awaits the session store, checking counts the pending           *)
(* checkImportLog calls and navigating queues the pending getSession       *)
(* calls.                                                                  *)
(***************************************************************************)
Text(pieces) == [str |-> pieces]

\* JavaScript truthiness of an optional string or id
Truthy(value) == value # Null /\ value # Undefined /\ value # Text(<<>>)

\* result.<name>, undefined when the property is absent
Prop(result, name) == IF name \in DOMAIN result THEN result[name] ELSE Undefined

\* the keys the locale has a message for
Locale ==
    {<<"home.import.errors.", "unrecognized_format">>,
     <<"home.import.errors.", "no_file_selected">>,
     <<"home.import.cannotReadPath">>}

\* vue-i18n t(key): the message, or the key itself when there is none
t(key) == IF key \in Locale THEN <<"message of ">> \o key ELSE key

translateError(error) ==
    IF Len(error.str) >= 1 /\ error.str[1] = "error."
    THEN LET key == <<"home.import.errors.">> \o Tail(error.str)
             translated == t(key)
         IN  IF translated # key THEN Text(translated) ELSE error
    ELSE error

NoFileSelected == Text(<<"error.", "no_file_selected">>)

\* what sessionStore.importFile and importFileFromPath resolve with
StoreResults ==
    {[success |-> TRUE],
     [success |-> FALSE, error |-> NoFileSelected],
     [success |-> FALSE, error |-> Text(<<"error.", "unrecognized_format">>),
      diagnosisSuggestion |-> Text(<<"suggestion">>)],
     [success |-> FALSE, error |-> Text(<<"error.", "unrecognized_format">>)],
     [success |-> FALSE, error |-> Text(<<"error.", "unlisted">>)],
     [success |-> FALSE, error |-> Text(<<"disk full">>)],
     [success |-> FALSE]}

CurrentSessionIds == {Null, [session |-> 1]}
Sessions == {Null, [type |-> "private"], [type |-> "group"]}
DroppedPaths == {<<>>, <<"p1">>, <<"p1", "p2">>}

\* the lines of handleClickImport and of handleFileDrop before the await
clearImport(v) ==
    [v EXCEPT !.importError = Null, !.diagnosisSuggestion = Null,
              !.hasImportLog = FALSE]

\* the lines of handleClickImport (click) and of handleFileDrop after the
\* await, up to the next await
afterImport(v, result, currentSessionId, click) ==
    LET error == Prop(result, "error")
        suggestion == Prop(result, "diagnosisSuggestion")
        done == [v EXCEPT !.pc = "idle",
                          !.last = [kind |-> IF click THEN "click" ELSE "drop",
                                    result |-> result,
                                    currentSessionId |-> currentSessionId]]
    IN  IF ~result.success /\ Truthy(error) /\ (click => error # NoFileSelected)
        THEN [done EXCEPT
                !.importError = translateError(error),
                !.diagnosisSuggestion = IF Truthy(suggestion) THEN suggestion ELSE @,
                !.checking = @ + 1]
        ELSE IF result.success /\ Truthy(currentSessionId)
             THEN [done EXCEPT !.navigating = Append(@, currentSessionId)]
             ELSE done

ImportViewInit ==
    /\ formats = <<>>
    /\ regs = <<>>
    /\ op = "new"
    /\ arg = Null
    /\ ret = Undefined
    /\ ParseIdle
    /\ IpcIdle
    /\ ChatIdle
    /\ ViewIdle

\* @click="!isImporting && handleClickImport()", up to the await
ClickImport ==
    /\ view.pc = "idle"
    /\ view.attempts < MaxAttempts
    /\ view' = [clearImport(view) EXCEPT !.pc = "importFile", !.attempts = @ + 1,
                                        !.last = [kind |-> "click"]]
    /\ UNCHANGED <<snifferVars, parseVars, ipcVars, chatVars, convList>>

ImportFileReturns(result, currentSessionId) ==
    /\ view.pc = "importFile"
    /\ view' = afterImport(view, result, currentSessionId, TRUE)
    /\ UNCHANGED <<snifferVars, parseVars, ipcVars, chatVars, convList>>

\* handleFileDrop up to its return or its await; the drop zone is disabled
\* while isImporting
FileDrop(paths) ==
    /\ view.pc = "idle"
    /\ view.attempts < MaxAttempts
    /\ IF Len(paths) = 0
       THEN view' = [view EXCEPT
                       !.importError = Text(t(<<"home.import.cannotReadPath">>)),
                       !.attempts = @ + 1,
                       !.last = [kind |-> "dropEmpty"]]
       ELSE view' = [clearImport(view) EXCEPT
                       !.pc = "importFileFromPath", !.attempts = @ + 1,
                       !.last = [kind |-> "drop", path |-> paths[1]]]
    /\ UNCHANGED <<snifferVars, parseVars, ipcVars, chatVars, convList>>

ImportFileFromPathReturns(result, currentSessionId) ==
    /\ view.pc = "importFileFromPath"
    /\ view' = afterImport(view, result, currentSessionId, FALSE)
    /\ UNCHANGED <<snifferVars, parseVars, ipcVars, chatVars, convList>>

\* checkImportLog after cacheApi.getLatestImportLog resolved
CheckImportLogSettles(success, path) ==
    /\ view.checking > 0
    /\ view' = [view EXCEPT !.hasImportLog = success /\ Truthy(path),
                            !.checking = @ - 1]
    /\ UNCHANGED <<snifferVars, parseVars, ipcVars, chatVars, convList>>

\* navigateToSession after chatApi.getSession resolved
GetSessionSettles(session) ==
    /\ view.navigating # <<>>
    /\ view' = [view EXCEPT
                  !.navigating = Tail(@),
                  !.navigated =
                      IF session # Null
                      THEN Append(@, [name |-> IF session.type = "private"
                                               THEN "private-chat"
                                               ELSE "group-chat",
                                      id |-> Head(view.navigating)])
                      ELSE @]
    /\ UNCHANGED <<snifferVars, parseVars, ipcVars, chatVars, convList>>

ImportViewNext ==
    \/ ClickImport
    \/ \E result \in StoreResults, currentSessionId \in CurrentSessionIds :
          ImportFileReturns(result, currentSessionId)
    \/ \E paths \in DroppedPaths : FileDrop(paths)
    \/ \E result \in StoreResults, currentSessionId \in CurrentSessionIds :
          ImportFileFromPathReturns(result, currentSessionId)
    \/ \E success \in BOOLEAN, path \in {Undefined, Text(<<"log">>)} :
          CheckImportLogSettles(success, path)
    \/ \E session \in Sessions : GetSessionSettles(session)

ImportViewSpec == ImportViewInit /\ [][ImportViewNext]_vars

(***************************************************************************)
(* Properties of the module entry.                                         *)
(***************************************************************************)
Started == pf # "idle"
Unrecognized == Started /\ pfile.readable /\ getParser(formats, pfile) = Null
Last(seq) == seq[Len(seq)]
HasType(events, type) == \E i \in 1..Len(events) : events[i].type = type

\* C7: for a file no parser matches, parseFile yields the error event and
\* nothing else, then ends; no event ever follows an error event.
C7_ErrorEventIsTerminal ==
    /\ \A i \in 1..(Len(yielded) - 1) : yielded[i].type # "error"
    /\ Unrecognized =>
          \/ pf = "suspendedStart" /\ yielded = <<>>
          \/ /\ pf \in {"yieldedError", "completed"}
             /\ Len(yielded) = 1
             /\ yielded[1].type = "error"
             /\ yielded[1].data = UnrecognizedError(pfile)

\* the whole sequence of an unrecognized file was read: one error event
C7_Witness ==
    /\ Unrecognized
    /\ consumer.api = "iterate"
    /\ pf = "completed"
    /\ outcome.state = "resolved"
    /\ Len(yielded) = 1

\* C8: parseFile never throws; a file that cannot be opened or read gives one
\* terminal error event.
C8_UnreadableFileIsErrorEvent ==
    /\ pf # "threw"
    /\ (Started /\ ~pfile.readable /\ pf = "completed") =>
          Len(yielded) = 1 /\ yielded[1].type = "error"

CallbackOf(type) ==
    CASE type = "meta" -> "onMeta"
      [] type = "members" -> "onMembers"
      [] type = "messages" -> "onMessageBatch"
      [] type = "progress" -> "onProgress"
      [] OTHER -> "none"

\* C9: streamParseFile has called, in order, the callback of every event
\* before the error event and none since; it rejects with the error event's
\* error, and then the sequence is closed.
C9_StreamDispatchInOrder ==
    consumer.api = "streamParseFile" =>
        LET n == IF HasError(yielded) THEN Len(yielded) - 1 ELSE Len(yielded) IN
        /\ Len(calls) = n
        /\ \A i \in 1..n :
              /\ calls[i].callback = CallbackOf(yielded[i].type)
              /\ calls[i].data = yielded[i].data
        /\ HasError(yielded) =>
              /\ outcome = Rejected(Last(yielded).data)
              /\ pf = "completed"
        /\ outcome.state = "rejected" => (HasError(yielded) \/ pf = "threw")
        /\ outcome.state = "resolved" => (~HasError(yielded) /\ pf = "completed")

\* meta and a batch were delivered, then the parser's error event rejected
C9_Witness ==
    /\ consumer.api = "streamParseFile"
    /\ outcome.state = "rejected"
    /\ Len(yielded) = 3
    /\ Last(yielded).type = "error"
    /\ Len(calls) = 2
    /\ calls[1].callback = "onMeta"
    /\ calls[2].callback \in {"onMembers", "onMessageBatch"}

\* C10: parseFileSync rejects when the sequence ended without a meta event,
\* whatever batches it collected, and never resolves without a meta.
C10_SyncNeedsMeta ==
    consumer.api = "parseFileSync" =>
        /\ outcome.state = "resolved" =>
              /\ HasType(yielded, "meta")
              /\ outcome.value.meta # Null
        /\ (pf = "completed" /\ ~HasError(yielded) /\ ~HasType(yielded, "meta")) =>
              outcome = Rejected(NoMetaError)

\* members and messages were collected, no meta came, and the call rejected
C10_Witness ==
    /\ consumer.api = "parseFileSync"
    /\ pf = "completed"
    /\ HasType(yielded, "members")
    /\ HasType(yielded, "messages")
    /\ ~HasType(yielded, "meta")
    /\ collected.messages # <<>>
    /\ outcome = Rejected(NoMetaError)

\* the elements of every batch of one type, in the order the events came
RECURSIVE BatchesOf(_, _)
BatchesOf(events, type) ==
    IF events = <<>> THEN <<>>
    ELSE (IF Head(events).type = type THEN Head(events).data ELSE <<>>)
           \o BatchesOf(Tail(events), type)

\* the data of the last meta event
LastMeta(events) ==
    LET i == CHOOSE k \in 1..Len(events) :
                 /\ events[k].type = "meta"
                 /\ \A j \in (k + 1)..Len(events) : events[j].type # "meta"
    IN events[i].data

\* C11: when the sequence ends with a meta event and no error event,
\* parseFileSync resolves with that meta and with members and messages equal
\* to the concatenation of the batches of each type in emission order; on an
\* error event it rejects with that event's error and returns nothing.
C11_SyncCollectsAllBatches ==
    consumer.api = "parseFileSync" =>
        /\ (pf = "completed" /\ ~HasError(yielded) /\ HasType(yielded, "meta")) =>
              outcome = Resolved([meta |-> LastMeta(yielded),
                                  members |-> BatchesOf(yielded, "members"),
                                  messages |-> BatchesOf(yielded, "messages")])
        /\ HasError(yielded) => outcome = Rejected(Last(yielded).data)
        /\ outcome.state = "resolved" => ~HasError(yielded)

\* a meta and two batches of messages were collected into the result
C11_Witness ==
    /\ consumer.api = "parseFileSync"
    /\ outcome.state = "resolved"
    /\ Len(yielded) = 3
    /\ yielded[2].type = "messages"
    /\ yielded[3].type = "messages"
    /\ yielded[2].data # yielded[3].data
    /\ Len(outcome.value.messages) = 3

\* the sum of the lengths of the batches of one type
RECURSIVE SumOfLengths(_, _)
SumOfLengths(events, type) ==
    IF events = <<>> THEN 0
    ELSE (IF Head(events).type = type THEN Len(Head(events).data) ELSE 0)
           + SumOfLengths(Tail(events), type)

\* C12: for a sequence without an error event that has a meta event,
\* parseFileInfo's messageCount and memberCount are the sums of the lengths of
\* the batches and the lengths of what parseFileSync returns on that sequence,
\* and name and platform are those of the meta parseFileSync returns.
C12_InfoProjectsSameSequence ==
    (/\ consumer.api = "parseFileInfo"
     /\ pf = "completed"
     /\ ~HasError(yielded)
     /\ HasType(yielded, "meta")) =>
        LET sync == parseFileSync(yielded) IN
        /\ outcome.state = "resolved"
        /\ sync.state = "resolved"
        /\ outcome.value.messageCount = SumOfLengths(yielded, "messages")
        /\ outcome.value.messageCount = Len(sync.value.messages)
        /\ outcome.value.memberCount = SumOfLengths(yielded, "members")
        /\ outcome.value.memberCount = Len(sync.value.members)
        /\ outcome.value.name = sync.value.meta.name
        /\ outcome.value.platform = sync.value.meta.platform

\* parseFileInfo summarized a meta, a members batch of two and a messages batch
C12_Witness ==
    /\ consumer.api = "parseFileInfo"
    /\ outcome.state = "resolved"
    /\ Len(yielded) = 3
    /\ yielded[1].type = "meta"
    /\ yielded[1].data.platform # consumer.feature.platform
    /\ yielded[2].type = "members"
    /\ Len(yielded[2].data) = 2
    /\ yielded[3].type = "messages"
    /\ outcome.value.memberCount = 2

\* the calls of the progress sink that forward the progress events, in order
RECURSIVE ForwardedProgress(_)
ForwardedProgress(events) ==
    IF events = <<>> THEN <<>>
    ELSE (IF Head(events).type = "progress"
          THEN <<Call("onProgress", Head(events).data)>> ELSE <<>>)
           \o ForwardedProgress(Tail(events))

IsProgressCall(c) == c.callback = "onProgress"

\* the caller passed a progress sink (streamParseFile always has one)
SinkGiven ==
    \/ consumer.api = "streamParseFile"
    \/ consumer.api \in {"parseFileSync", "parseFileInfo"} /\ consumer.onProgress

SameIgnoringCase(e1, e2) == toLowerCase(e1) = toLowerCase(e2)

\* C18: a feature's extension step accepts the file exactly when the file's
\* extension equals one of feature.extensions with letter case ignored,
\* whatever the case of the file's extension and of the declared entries.
C18_ExtensionCaseInsensitive ==
    (op = "diagnose" /\ arg.readable) =>
        \A i \in 1..Len(formats) :
            ret.checks[i].extensionMatch
                <=> \E k \in 1..Len(formats[i].feature.extensions) :
                       SameIgnoringCase(formats[i].feature.extensions[k], arg.ext)

\* no registered feature lists the file's (lower-cased) extension
ExtensionUnsupported ==
    \A i \in 1..Len(formats) : ~ArrayIncludes(formats[i].feature.extensions, ArgExt)

\* C19: for a file whose extension no registered feature lists, sniff returns
\* null and diagnose returns recognized = false, no partial match and the
\* suggestion that names the extension.
C19_UnsupportedExtension ==
    (IsFileQuery /\ arg.readable /\ ExtensionUnsupported) =>
        /\ op \in {"sniff", "getParser"} => ret = Null
        /\ op = "diagnose" =>
              /\ ~ret.recognized
              /\ ret.matchedFormat = Null
              /\ ret.partialMatches = <<>>
              /\ ret.suggestion = [text |-> "no format matches extension",
                                   ext |-> ArgExt]

\* a .txt file diagnosed against a registry of .json formats
C19_Witness ==
    /\ op = "diagnose"
    /\ arg.readable
    /\ Len(formats) = 2
    /\ ExtensionUnsupported
    /\ arg.ext = EXT_TXT
    /\ ret.suggestion.ext = EXT_TXT

\* the required fields a feature declares
DeclaredFields(feature) ==
    IF "requiredFields" \in DOMAIN feature.signatures
    THEN feature.signatures.requiredFields ELSE <<>>

\* the declared fields that are not discoverable in the head, in the order of
\* the declaration
RECURSIVE NotDiscoverable(_, _)
NotDiscoverable(fields, headContent) ==
    IF fields = <<>> THEN <<>>
    ELSE (IF fieldFound(headContent, Head(fields)) THEN <<>> ELSE <<Head(fields)>>)
           \o NotDiscoverable(Tail(fields), headContent)

\* C20 as stated: for every format whose extension matches, missingFields is
\* the list of declared required fields not discoverable in the head and
\* requiredFieldsMatch is true exactly when that list is empty.
C20_MissingFieldsExactAsStated ==
    (op = "diagnose" /\ arg.readable) =>
        \A i \in 1..Len(formats) :
            ret.checks[i].extensionMatch =>
                /\ ret.checks[i].missingFields
                      = NotDiscoverable(DeclaredFields(formats[i].feature), ArgHead)
                /\ (ret.checks[i].requiredFieldsMatch = "true")
                      <=> (ret.checks[i].missingFields = <<>>)

\* C20: for every format whose extension matches, missingFields is the list
\* of declared required fields not discoverable in the head, in declaration
\* order; requiredFieldsMatch is null when the format declares no required
\* field and otherwise true exactly when that list is empty; a check that
\* misses only the second of two declared fields is a partial match.
C20_MissingFieldsExact ==
    (op = "diagnose" /\ arg.readable) =>
        \A i \in 1..Len(formats) :
            ret.checks[i].extensionMatch =>
                LET declared == DeclaredFields(formats[i].feature) IN
                /\ ret.checks[i].missingFields = NotDiscoverable(declared, ArgHead)
                /\ ret.checks[i].requiredFieldsMatch =
                      IF declared = <<>> THEN TriNull
                      ELSE Tri(ret.checks[i].missingFields = <<>>)
                /\ (Len(declared) = 2 /\ ret.checks[i].missingFields = <<declared[2]>>) =>
                      \E j \in 1..Len(ret.partialMatches) :
                          ret.partialMatches[j] = ret.checks[i]

\* a .json file with the first of two required fields and not the second:
\* one partial match, whose missingFields is the second field
C20_Witness ==
    /\ op = "diagnose"
    /\ arg.readable
    /\ Len(ret.partialMatches) = 1
    /\ ret.partialMatches[1].missingFields = <<FieldB>>
    /\ \E i \in 1..Len(formats) :
          /\ ret.checks[i] = ret.partialMatches[1]
          /\ DeclaredFields(formats[i].feature) = <<FieldA, FieldB>>
          /\ fieldFound(ArgHead, FieldA)

\* the issues of one check: its failed head signature, then its missing fields
IssuesOf(check) ==
    (IF check.headSignatureMatch = "false"
     THEN <<[issue |-> "head signature mismatch"]>> ELSE <<>>)
    \o (IF check.missingFields # <<>>
        THEN <<[issue |-> "missing required fields", fields |-> check.missingFields]>>
        ELSE <<>>)

\* position i holds the first partial match of the checks
IsFirstPartial(checks, i) ==
    /\ IsPartial(checks[i])
    /\ \A j \in 1..(i - 1) : ~IsPartial(checks[j])

\* the suggestion is built from the check: it names the check's format and
\* lists its issues, or, when the check has no issue to list, it is one of the
\* two messages without issues
BuiltFrom(suggestion, check) ==
    IF IssuesOf(check) # <<>>
    THEN suggestion = [text |-> "suspected format with issues",
                       formatName |-> check.formatName,
                       issues |-> IssuesOf(check)]
    ELSE \/ suggestion = [text |-> "content is not valid JSON"]
         \/ suggestion = [text |-> "extension matches but structure unexpected",
                          formatName |-> check.formatName]

\* C21: the suggestion of diagnose says that no format matches the extension
\* if no registered format lists the file's extension; otherwise it is built
\* from the first partial match in registry order and lists that match's
\* failed head signature and missing fields.
C21_SuggestionRankedRule ==
    (op = "diagnose" /\ arg.readable) =>
        IF ExtensionUnsupported
        THEN ret.suggestion = [text |-> "no format matches extension", ext |-> ArgExt]
        ELSE \E i \in 1..Len(ret.checks) :
                /\ IsFirstPartial(ret.checks, i)
                /\ BuiltFrom(ret.suggestion, ret.checks[i])

\* a .txt file that none of the registered formats listing .txt matches
TxtWithoutMatch ==
    /\ IsFileQuery
    /\ arg.readable
    /\ ArgExt = EXT_TXT
    /\ \A i \in 1..Len(formats) :
          ArrayIncludes(formats[i].feature.extensions, EXT_TXT)
              => ~matchFeature(formats[i].feature, ArgExt, ArgHead)

\* C22 as stated: for a .txt file that matches none of the registered
\* plain-text formats, sniff returns null and the suggestion of diagnose names
\* the extension and says that no format matched.
C22_TxtNoFormatMatchedAsStated ==
    TxtWithoutMatch =>
        /\ op = "sniff" => ret = Null
        /\ op = "diagnose" =>
              ret.suggestion = [text |-> "no format matches extension",
                                ext |-> EXT_TXT]

\* C22: for a .txt file that matches none of the registered plain-text
\* formats, sniff returns null and diagnose does not recognize the file; the
\* suggestion names the extension and says that no format matched when no
\* registered format lists .txt, and otherwise names the first registered
\* format that lists .txt, with its failed head signature and missing fields.
C22_TxtNoFormatMatched ==
    TxtWithoutMatch =>
        /\ op = "sniff" => ret = Null
        /\ op = "diagnose" =>
              /\ ~ret.recognized
              /\ IF ExtensionUnsupported
                 THEN ret.suggestion = [text |-> "no format matches extension",
                                        ext |-> EXT_TXT]
                 ELSE \E i \in 1..Len(formats) :
                         /\ ArrayIncludes(formats[i].feature.extensions, EXT_TXT)
                         /\ \A j \in 1..(i - 1) :
                               ~ArrayIncludes(formats[j].feature.extensions, EXT_TXT)
                         /\ ret.suggestion.formatName = formats[i].feature.name
                         /\ BuiltFrom(ret.suggestion, ret.checks[i])

\* a .txt file diagnosed against two .txt formats that both fail: the
\* suggestion names the first of them
C22_Witness ==
    /\ op = "diagnose"
    /\ TxtWithoutMatch
    /\ Len(ret.partialMatches) = 2
    /\ ret.partialMatches[1].formatName # ret.partialMatches[2].formatName
    /\ ret.suggestion.formatName = ret.partialMatches[1].formatName
    /\ ret.suggestion.text = "suspected format with issues"

\* the trimmed head starts with neither { nor [
NotJsonShaped(headContent) ==
    /\ ~StartsWithAt(trim(headContent), 1, <<"{">>)
    /\ ~StartsWithAt(trim(headContent), 1, <<"[">>)

\* C23: for an unrecognized .json file whose extension some registered format
\* lists and whose trimmed head starts with neither { nor [, the suggestion of
\* diagnose is the hint that the content is not valid JSON, whichever step
\* made the first partial match fail.
C23_NotJsonHint ==
    (/\ op = "diagnose"
     /\ arg.readable
     /\ ArgExt = EXT_JSON
     /\ ~ExtensionUnsupported
     /\ ~ret.recognized
     /\ NotJsonShaped(ArgHead)) =>
        ret.suggestion = [text |-> "content is not valid JSON"]

\* what the call of the current state returns on a sniffer that was only given
\* the same registrations
OnFreshSniffer ==
    LET fresh == registerAll(<<>>, regs)
    IN CASE op = "sniff" -> sniff(fresh, arg)
         [] op = "getParser" -> getParser(fresh, arg)
         [] op = "diagnose" -> diagnose(fresh, arg)

First8192(file) == SubSeq(file.content, 1, Min(8192, Len(file.content)))

\* the query of the current state, made on another file
SameQueryOn(file) ==
    CASE op = "sniff" -> sniff(formats, file)
      [] op = "getParser" -> getParser(formats, file)
      [] op = "diagnose" -> diagnose(formats, file)

\* C25: sniff, getParser and diagnose return the same result for any two
\* files with the same extension whose first 8192 bytes are equal, whatever
\* follows and whatever the sizes of the files.
C25_OnlyHeadWindow ==
    IsFileQuery =>
        \A other \in LargeFiles :
            (/\ other # arg
             /\ other.ext = arg.ext
             /\ First8192(other) = First8192(arg)) => SameQueryOn(other) = ret

\* a file that is not recognized although the two fields that would make it
\* recognized follow right after the head window
C25_Witness ==
    /\ op = "sniff"
    /\ Len(arg.content) > 8192
    /\ ret = Null
    /\ \E i \in 1..Len(formats) :
          matchFeature(formats[i].feature, ArgExt, arg.content)

\* C26: sniff and getParser return null, without throwing, when no registered
\* format matches the file, and diagnose returns a FormatDiagnosis for every
\* path, also for a file that cannot be opened or read.
C26_AbsenceNotThrow ==
    /\ (/\ op \in {"sniff", "getParser"}
        /\ arg.readable
        /\ \A i \in 1..Len(formats) :
              ~matchFeature(formats[i].feature, ArgExt, ArgHead)) => ret = Null
    /\ op = "diagnose" =>
          /\ ret # Threw
          /\ DOMAIN ret = {"recognized", "matchedFormat", "checks",
                           "partialMatches", "suggestion"}

\* the registrations (positions of regs) with the id
RegisteredWithId(formatId) == {i \in 1..Len(regs) : regs[i].feature.id = formatId}

\* the greatest element of a non-empty set of numbers
Latest(S) == CHOOSE i \in S : \A j \in S : j <= i

\* C27: register keeps every module, also one whose id is already registered;
\* getParserById returns the parser of the module registered last with the
\* id, whatever the priorities, and null only when no registered module has
\* the id.
C27_DuplicateIdShadows ==
    /\ Len(formats) = Len(regs)
    /\ op = "getParserById" =>
          IF RegisteredWithId(arg) = {} THEN ret = Null
          ELSE ret = regs[Latest(RegisteredWithId(arg))].parser

(***************************************************************************)
(* Properties of the IPC handlers.                                         *)
(***************************************************************************)
\* C14: the percentages of the chat:importProgress messages of one import
\* never decrease in the order they are sent, from the 'detecting' message to
\* the last one, the messages of a failed import included.
C14_ImportProgressMonotonic ==
    ipc.handler = "chat:import" =>
        \A i \in 1..(Len(sent) - 1) : sent[i].progress <= sent[i + 1].progress

\* the file the handler was asked about
HandlerFile ==
    IF ipc.handler = "chat:import" THEN ipc.filePath ELSE ipc.filePaths[1]

RespondedUnrecognized ==
    /\ ipc.handler \in {"chat:selectFile", "chat:import"}
    /\ response.state = "resolved"
    /\ "error" \in DOMAIN response.value
    /\ response.value.error = UNRECOGNIZED_FORMAT

\* C15: a response of chat:selectFile or chat:import with the error
\* 'error.unrecognized_format' carries a diagnosis: the suggestion of
\* diagnoseFormat on that file and, for each of its partial matches in order,
\* formatName and missingFields.
C15_UnrecognizedHasDiagnosis ==
    RespondedUnrecognized =>
        /\ "diagnosis" \in DOMAIN response.value
        /\ LET d == diagnoseFormat(formats, HandlerFile)
               given == response.value.diagnosis
           IN /\ d # Threw
              /\ given.suggestion = d.suggestion
              /\ Len(given.partialMatches) = Len(d.partialMatches)
              /\ \A i \in 1..Len(d.partialMatches) :
                    /\ given.partialMatches[i].formatName
                          = d.partialMatches[i].formatName
                    /\ given.partialMatches[i].missingFields
                          = d.partialMatches[i].missingFields

\* chat:import answered 'unrecognized format' for a file that two formats
\* match in part, with the fields each misses
C15_Witness ==
    /\ RespondedUnrecognized
    /\ ipc.handler = "chat:import"
    /\ Len(response.value.diagnosis.partialMatches) >= 2
    /\ response.value.diagnosis.partialMatches[1].missingFields # <<>>
    /\ response.value.diagnosis.partialMatches[1].formatName
          # response.value.diagnosis.partialMatches[2].formatName

IsErrorStage(payload) == payload.stage = "error"

\* C16: chat:import resolves: with {success: true, sessionId} of the import
\* and no 'error' message when the import succeeded; otherwise with
\* {success: false, error}, error being the import's error (the stringified
\* exception when the import threw), after exactly one 'error' message.
C16_ImportPropagatesErrorOnce ==
    (ipc.handler = "chat:import" /\ ipc.pc = "done") =>
        /\ response.state = "resolved"
        /\ IF worker.state = "resolved" /\ worker.value.success
           THEN /\ response.value = [success |-> TRUE,
                                     sessionId |-> worker.value.sessionId]
                /\ Len(SelectSeq(sent, IsErrorStage)) = 0
           ELSE /\ ~response.value.success
                /\ response.value.error =
                      IF worker.state = "resolved" THEN worker.value.error
                      ELSE String(worker.error)
                /\ Len(SelectSeq(sent, IsErrorStage)) = 1

IsCallOfOp(entry) ==
    entry.event = "call" /\ entry.fn = DestructiveOp(ipc.handler)

\* C17: in chat:deleteSession, chat:renameSession, chat:deleteMember and
\* chat:updateSessionOwnerId the operation on a session is called only after
\* worker.closeDatabase of that session resolved; when closeDatabase rejects
\* the operation is never called and the handler returns false.
C17_DestructiveAfterClose ==
    ipc.handler \in DestructiveHandlers =>
        /\ \A j \in 1..Len(dblog) :
              IsCallOfOp(dblog[j]) =>
                  /\ dblog[j].sessionId = ipc.sessionId
                  /\ \E i \in 1..(j - 1) :
                        dblog[i] = LogResolved("worker.closeDatabase", ipc.sessionId)
        /\ (\E i \in 1..Len(dblog) :
                dblog[i] = LogRejected("worker.closeDatabase", ipc.sessionId)) =>
              /\ \A j \in 1..Len(dblog) : ~IsCallOfOp(dblog[j])
              /\ ipc.pc = "done"
              /\ response = Resolved(FALSE)

\* chat:deleteMember closed the database, then deleted the member
C17_Witness ==
    /\ ipc.handler = "chat:deleteMember"
    /\ ipc.pc = "done"
    /\ dblog = <<LogCall("worker.closeDatabase", ipc.sessionId),
                 LogResolved("worker.closeDatabase", ipc.sessionId),
                 LogCall("worker.deleteMember", ipc.sessionId),
                 LogResolved("worker.deleteMember", ipc.sessionId)>>
    /\ response = Resolved(TRUE)


(***************************************************************************)
(* Properties of the AI chat.                                              *)
(***************************************************************************)
\* C28: a sendMessage call that is made while an earlier call has not
\* resolved, also one that is still waiting for llmApi.hasConfig(), appends no
\* message and calls none of the keyword, search, stream and persistence APIs.
C28_OneSendAtATime ==
    \A j \in 1..Len(sends) :
        sends[j].overlapped => (sends[j].appended = 0 /\ sends[j].called = {})

\* the error message that the catch block appends when the stream fails
StreamFailedMessage(i) ==
    [id |-> generateId("error", i), role |-> "assistant",
     content |-> FailedText([message |-> "stream failed"])]

\* this step is a chunk of the stream of call i, or the update that follows
\* the end of the stream
StreamUpdates(i) ==
    /\ Awaits(i, "chatStream")
    /\ sends'[i] # sends[i]
    /\ chat'.messages # Append(chat.messages, StreamFailedMessage(i))

\* the step changes the placeholder of call i and no other entry that the
\* list had
LandsOnPlaceholder(i) ==
    LET k == sends[i].aiMessageIndex + 1
    IN /\ k <= Len(chat.messages)
       /\ chat.messages[k] # Hole
       /\ "id" \in DOMAIN chat.messages[k]
       /\ chat.messages[k].id = sends[i].aiMessageId
       /\ Len(chat'.messages) >= Len(chat.messages)
       /\ \A m \in 1..Len(chat.messages) :
             m # k => chat'.messages[m] = chat.messages[m]

\* C29: every chunk update and the final update of a stream change the
\* placeholder that the same sendMessage call created, and nothing else, also
\* when the messages list was replaced while the stream was in progress.
C29_StreamWritesOwnPlaceholder ==
    [][\A i \in 1..Len(sends) : StreamUpdates(i) => LandsOnPlaceholder(i)]_vars

\* the conversation that call i has to be saved to
ExpectedConversation(i) ==
    IF sends[i].startConversationId # Null THEN sends[i].startConversationId
    ELSE Created(i).id

\* C30: both messages of an exchange are saved to the conversation that was
\* current when sendMessage was called, or to the one created for the call
\* when none was current, the user message first.
C30_ExchangeSavedTogether ==
    \A a \in 1..Len(apilog) :
        apilog[a].api = "addMessage" =>
            /\ apilog[a].conversationId = ExpectedConversation(apilog[a].by)
            /\ apilog[a].role = "assistant" =>
                  \E b \in 1..(a - 1) :
                      /\ apilog[b].api = "addMessage"
                      /\ apilog[b].by = apilog[a].by
                      /\ apilog[b].role = "user"
                      /\ apilog[b].conversationId = apilog[a].conversationId

\* the entry of the messages list was created by call i of sendMessage
CreatedBy(m, i) ==
    /\ "id" \in DOMAIN m
    /\ m.id.prefix \in {"user", "ai", "error"}
    /\ m.id.n = i

\* the entry is shown as still streaming
MarkedStreaming(m) == "isStreaming" \in DOMAIN m /\ m.isStreaming

\* C31: once a sendMessage call has resolved, no entry of messages that the
\* call created is marked as streaming, also when the search found nothing
\* and when the LLM stream failed after the placeholder was added.
C31_NoStreamingAfterResolve ==
    \A i \in 1..Len(sends) :
        sends[i].outcome = "resolved" =>
            \A k \in 1..Len(chat.messages) :
                CreatedBy(chat.messages[k], i) => ~MarkedStreaming(chat.messages[k])

\* call i has added its user message and has not resolved
Processing(i) ==
    /\ i \in 1..Len(sends)
    /\ sends[i].pc \notin {"hasConfig", "done"}

\* the steps that take the sendMessage calls that are processing to their
\* end resolve them and leave isAIThinking and isLoadingSource false
ResolvesIdle ==
    \A i \in 1..Len(sends) :
        (Processing(i) /\ sends'[i].pc = "done") =>
            /\ sends'[i].outcome = "resolved"
            /\ ~chat'.isAIThinking
            /\ ~chat'.isLoadingSource

\* a call rejects only when llmApi.hasConfig rejected
RejectsOnlyWithoutConfig ==
    \A i \in 1..Len(sends) :
        sends[i].outcome = "rejected" => "hasConfig" \in sends[i].failures

\* every call comes to its end
EveryCallEnds ==
    \A i \in 1..MaxSends : (i <= Len(sends)) ~> (i <= Len(sends) /\ sends[i].pc = "done")

\* C32 as stated: when llmApi.hasConfig resolves and every awaited call
\* settles, sendMessage resolves with isAIThinking and isLoadingSource false,
\* and a call in which any step failed after the user message was added has
\* appended exactly one assistant error message.
C32_AlwaysResolvesIdleAsStated ==
    /\ [][ResolvesIdle]_vars
    /\ EveryCallEnds
    /\ [](RejectsOnlyWithoutConfig /\
           \A i \in 1..Len(sends) :
              (sends[i].pc = "done" /\ sends[i].failures \ {"hasConfig"} # {}) =>
                  sends[i].errors = 1)

\* C32: when llmApi.hasConfig resolves and every awaited call settles,
\* sendMessage resolves, with isAIThinking and isLoadingSource false when the
\* call had added its user message; it has appended exactly one assistant
\* error message when the LLM stream failed or the placeholder could not be
\* read back, and none when only the search or the saving failed.
C32_AlwaysResolvesIdle ==
    /\ [][ResolvesIdle]_vars
    /\ EveryCallEnds
    /\ [](RejectsOnlyWithoutConfig /\
           \A i \in 1..Len(sends) :
              sends[i].pc = "done" =>
                  sends[i].errors =
                      IF sends[i].failures \cap {"stream failed", "TypeError"} # {}
                      THEN 1 ELSE 0)

\* a call whose search failed and whose saving failed has resolved without an
\* error message, and another whose stream failed has resolved with one
C32_Witness ==
    /\ Len(sends) = 2
    /\ sends[1].outcome = "resolved"
    /\ sends[1].failures = {"searchMessages", "addMessage"}
    /\ sends[1].errors = 0
    /\ sends[2].outcome = "resolved"
    /\ sends[2].failures = {"stream failed"}
    /\ sends[2].errors = 1
    /\ ~chat.isAIThinking
    /\ ~chat.isLoadingSource

\* the warning that call i appends when no LLM is configured
ConfigWarning(i) ==
    [id |-> generateId("error", i), role |-> "assistant", content |-> ConfigureFirst]

\* this step resumes call i with llmApi.hasConfig() resolved to false
ResumesWithoutConfig(i) ==
    /\ Awaits(i, "hasConfig")
    /\ sends'[i].pc = "done"
    /\ sends'[i].outcome = "resolved"

\* this step is a call of sendMessage with an empty or whitespace-only content
CalledWithBlank ==
    /\ Len(sends') = Len(sends) + 1
    /\ trim(sends'[Len(sends')].content) = <<>>

\* C33: when llmApi.hasConfig() resolves to false, sendMessage appends the
\* warning and changes nothing else: no user message, the flags, the
\* keywords, the sources and the current conversation as they were, no
\* keyword, search, stream or persistence API called; a call with an empty or
\* whitespace-only content changes nothing and calls nothing.
C33_GuardsChangeNothingElse ==
    /\ [][\A i \in 1..Len(sends) :
             ResumesWithoutConfig(i) =>
                 /\ chat' = [chat EXCEPT !.messages = Append(@, ConfigWarning(i))]
                 /\ apilog' = apilog
                 /\ sends'[i].called = {}
                 /\ sends'[i].appended = 1]_vars
    /\ [][CalledWithBlank =>
             /\ chat' = chat
             /\ apilog' = apilog
             /\ sends'[Len(sends')].pc = "done"
             /\ sends'[Len(sends')].outcome = "resolved"]_vars
    /\ [](\A i \in 1..Len(sends) :
             trim(sends[i].content) = <<>> =>
                 sends[i].called = {} /\ sends[i].appended = 0)

\* while an earlier call is streaming, a second call found no LLM configured:
\* its warning is the last message and the chat is still thinking
C33_Witness ==
    /\ Len(sends) = 2
    /\ sends[1].pc = "chatStream"
    /\ sends[2].pc = "done"
    /\ sends[2].called = {}
    /\ chat.isAIThinking
    /\ chat.currentKeywords # <<>>
    /\ chat.messages[Len(chat.messages)] = ConfigWarning(2)

\* the search of call i has yielded no message
FoundNothing(i) == sends[i].searchResults = <<>>

\* the placeholder of call i as step 4 leaves it when nothing was found
NotFoundMessage(i) ==
    [id |-> generateId("ai", i), role |-> "assistant",
     content |-> NotFoundText(sends[i].keywords),
     dataSource |-> [keywords |-> sends[i].keywords, messageCount |-> 0],
     isStreaming |-> FALSE]

\* the API log records a call that saveConversation made for call i
IsSaveBy(entry, i) ==
    entry.by = i /\ entry.api \in {"createConversation", "addMessage"}

\* C34: when the search yields no message (no keywords, no hits, or an error
\* of the search API), sendMessage does not call llmApi.chatStream, sets the
\* placeholder to the not-found text with isStreaming false, goes on to
\* saveConversation, and appends no failure message.
C34_ZeroResultsSkipStream ==
    /\ [](\A i \in 1..Len(sends) :
             FoundNothing(i) =>
                 /\ "chatStream" \notin sends[i].called
                 /\ sends[i].errors = 0
                 /\ sends[i].pc \in {"createConversation", "addUserMessage",
                                     "addAssistantMessage", "done"}
                 /\ \E a \in 1..Len(apilog) : IsSaveBy(apilog[a], i))
    /\ [][\A i \in 1..Len(sends) :
             (~FoundNothing(i) /\ FoundNothing(i)') =>
                 /\ chat'.messages = Append(chat.messages, NotFoundMessage(i)')
                 /\ Len(apilog') = Len(apilog) + 1
                 /\ IsSaveBy(apilog'[Len(apilog')], i)]_vars

\* the search API failed for a call with keywords: the not-found text is in
\* the list, both messages were saved, and no failure message was appended
C34_Witness ==
    /\ Len(sends) = 1
    /\ sends[1].pc = "done"
    /\ sends[1].failures = {"searchMessages"}
    /\ sends[1].keywords # <<>>
    /\ sends[1].errors = 0
    /\ Len(chat.messages) = 2
    /\ chat.messages[2] = NotFoundMessage(1)
    /\ Len(apilog) = 3
    /\ apilog[3].role = "assistant"
    /\ apilog[3].content = NotFoundText(sends[1].keywords)

\* this step is the end of a loadConversation whose getMessages ended as ok
LoadEnds(conversationId, ok) ==
    /\ conversationId \in loads
    /\ conversationId \notin loads'
    /\ apilog'[Len(apilog')].api = "getMessages"
    /\ apilog'[Len(apilog')].ok = ok

\* the list shows the history of the conversation, message by message
ShowsHistory(list, conversationId) ==
    /\ Len(list) = Len(History(conversationId))
    /\ \A k \in 1..Len(list) :
          /\ list[k].id = History(conversationId)[k].id
          /\ list[k].role = History(conversationId)[k].role
          /\ list[k].content = History(conversationId)[k].content
          /\ list[k].timestamp = History(conversationId)[k].timestamp * 1000
          /\ ~MarkedStreaming(list[k])

\* C36: when aiApi.getMessages fails, loadConversation resolves and leaves
\* messages and currentConversationId as they were; when it succeeds,
\* currentConversationId becomes the requested id and messages becomes the
\* loaded history in order, no message marked as streaming.
C36_LoadConversationAllOrNothing ==
    [][\A conversationId \in StoredConversations :
          /\ LoadEnds(conversationId, FALSE) =>
                /\ chat'.messages = chat.messages
                /\ chat'.currentConversationId = chat.currentConversationId
          /\ LoadEnds(conversationId, TRUE) =>
                /\ chat'.currentConversationId = conversationId
                /\ ShowsHistory(chat'.messages, conversationId)]_vars

\* a conversation was loaded over the messages of a call that is still
\* streaming: the list is the stored history
C36_Witness ==
    /\ Len(sends) >= 1
    /\ sends[1].pc = "chatStream"
    /\ loads = {}
    /\ apilog # <<>>
    /\ apilog[Len(apilog)].api = "getMessages"
    /\ apilog[Len(apilog)].ok
    /\ chat.currentConversationId = apilog[Len(apilog)].conversationId
    /\ ShowsHistory(chat.messages, chat.currentConversationId)

\* llmApi.chat resolved with success and a content
ChatSucceeded(result) ==
    /\ result # Threw
    /\ result.success
    /\ "content" \in DOMAIN result
    /\ result.content # <<>>

\* w stands in the question between two separators or ends of the question
IsTokenOf(w, question) ==
    \E a \in 1..Len(question) :
        /\ a + Len(w) - 1 <= Len(question)
        /\ SubSeq(question, a, a + Len(w) - 1) = w
        /\ \A k \in 1..Len(w) : w[k] \notin FallbackSeparators
        /\ a = 1 \/ question[a - 1] \in FallbackSeparators
        /\ a + Len(w) - 1 = Len(question) \/ question[a + Len(w)] \in FallbackSeparators

\* C37: extractKeywords does not throw; when the LLM call succeeded with a
\* content it returns at most 5 keywords, each non-empty after trimming and
\* shorter than 20 characters; when the call failed, returned no content or
\* threw, it returns at most 3 tokens of the question, each of length 2 or
\* more.
C37_KeywordsBounded ==
    op = "extractKeywords" =>
        /\ ret.state = "resolved"
        /\ IF ChatSucceeded(arg.result)
           THEN /\ Len(ret.value) <= 5
                /\ \A k \in 1..Len(ret.value) :
                      trim(ret.value[k]) # <<>> /\ Len(ret.value[k]) < 20
           ELSE /\ Len(ret.value) <= 3
                /\ \A k \in 1..Len(ret.value) :
                      /\ Len(ret.value[k]) >= 2
                      /\ IsTokenOf(ret.value[k], arg.question)

\* the LLM listed six keywords: five were returned
C37_Witness ==
    /\ op = "extractKeywords"
    /\ ChatSucceeded(arg.result)
    /\ Len(SplitEach(arg.result.content, {",", FWComma})) = 6
    /\ Len(ret.value) = 5
    /\ ret.value[5] = <<"e">>

\* this step is the end of a handleDelete whose deleteConversation ended as ok
DeleteEnds(convId, ok) ==
    /\ convId \in convList.deleting
    /\ convId \notin convList'.deleting
    /\ apilog'[Len(apilog')].api = "deleteConversation"
    /\ apilog'[Len(apilog')].ok = ok

\* the chat shows a fresh conversation: no current conversation, the welcome
\* message alone, no sources and no keywords
IsFresh(c) ==
    /\ c.currentConversationId = Null
    /\ Len(c.messages) = 1
    /\ c.messages[1].id.prefix = "welcome"
    /\ c.messages[1].role = "assistant"
    /\ c.sourceMessages = <<>>
    /\ c.currentKeywords = <<>>

\* C38: a deletion that failed leaves the conversation list and the chat as
\* they were and emits no 'delete' event; a deletion that succeeded removes
\* the conversation from the list, emits the event, and resets the chat to a
\* fresh conversation when the deleted conversation is the current one, and
\* otherwise leaves the chat as it was.
C38_DeleteResetsOnlyCurrent ==
    [][\A k \in 1..Len(ListedConversations) :
          LET convId == ListedConversations[k] IN
          /\ DeleteEnds(convId, FALSE) =>
                /\ convList'.conversations = convList.conversations
                /\ convList'.emitted = convList.emitted
                /\ chat' = chat
          /\ DeleteEnds(convId, TRUE) =>
                /\ convList'.conversations
                      = withoutConversation(convList.conversations, convId)
                /\ convList'.emitted = Append(convList.emitted, convId)
                /\ IF chat.currentConversationId = convId
                   THEN /\ IsFresh(chat')
                        /\ chat'.isAIThinking = chat.isAIThinking
                        /\ chat'.isLoadingSource = chat.isLoadingSource
                   ELSE chat' = chat]_vars

\* the loaded conversation was deleted while the other one stays listed: the
\* chat is fresh; before, a deletion of the other conversation had failed
C38_Witness ==
    /\ Len(apilog) >= 2
    /\ apilog[Len(apilog)].api = "deleteConversation"
    /\ apilog[Len(apilog)].ok
    /\ \E a \in 1..Len(apilog) :
          /\ apilog[a].api = "getMessages"
          /\ apilog[a].ok
          /\ apilog[a].conversationId = apilog[Len(apilog)].conversationId
    /\ convList.emitted = <<ListedConversations[1]>>
    /\ convList.conversations = <<ListedConversations[2]>>
    /\ IsFresh(chat)

(***************************************************************************)
(* Properties of the import view.                                          *)
(***************************************************************************)
\* this step begins an import attempt (a click or a drop)
AttemptStarts == view'.attempts = view.attempts + 1

\* this step ends an attempt: the session store answered, or the drop had no
\* path and ended where it began
AttemptEnds ==
    \/ view.pc # "idle" /\ view'.pc = "idle"
    \/ AttemptStarts /\ view'.pc = "idle"

\* the attempt failed with an error other than the cancelled file dialog of
\* the click path
FailedWithError(last) ==
    \/ last.kind = "dropEmpty"
    \/ /\ last.kind \in {"click", "drop"}
       /\ ~last.result.success
       /\ Truthy(Prop(last.result, "error"))
       /\ ~(last.kind = "click" /\ last.result.error = NoFileSelected)

\* C39: every import attempt, by click or by drop, first clears importError
\* and diagnosisSuggestion; when it ends, importError is set iff it failed
\* with an error other than the cancelled file dialog of the click path;
\* diagnosisSuggestion is set only together with importError; and a session
\* is navigated to only after a successful import with a current session id.
C39_AttemptClearsThenReports ==
    [][/\ AttemptStarts =>
            /\ view'.diagnosisSuggestion = Null
            /\ view'.pc # "idle" => view'.importError = Null
       /\ AttemptEnds => (view'.importError # Null <=> FailedWithError(view'.last))
       /\ view'.diagnosisSuggestion # Null => view'.importError # Null
       /\ Len(view'.navigating) > Len(view.navigating) =>
            /\ view'.last.result.success
            /\ Truthy(view'.last.currentSessionId)
            /\ view'.navigating = Append(view.navigating, view'.last.currentSessionId)
       /\ view'.navigated # view.navigated =>
            /\ view.navigating # <<>>
            /\ view'.navigated[Len(view'.navigated)].id = Head(view.navigating)]_vars

=============================================================================
